---- MODULE Spec2Model ----
(***************************************************************************)
(* Unified LLM client of phlox (server/utils/llm_client, model_probe):     *)
(* the JSON repair pipeline, the structured-output call, the capability    *)
(* probe and store, and the OpenAI-compatible stream normalizer.           *)
(*                                                                         *)
(* Text is modelled as a sequence of one-character strings, so that the    *)
(* character scans and regular expressions of the source are computed      *)
(* position by position as the source computes them.                       *)
(***************************************************************************)
EXTENDS Integers, Sequences, FiniteSets, TLC

VARIABLES
    rjParts,     \* how the text given to repair_json was put together
    rjIn,        \* repair_json: the argument json_str
    rjOut,       \* the outcome: the returned text or the raised error
    rjPass,      \* the pass that was applied alone, "" for repair_json itself
    rjPc,        \* "input" before the call, "done" after it
    cfg,         \* config_manager: the saved configuration
    capRows,     \* the model-capability table, one entry per (provider, model)
    tasks,       \* the probe tasks created by update_config and not finished
    lastProbe,   \* the probe invocation that returned last
    updates,     \* update_config calls so far
    chatArgs,    \* the arguments of the last chat_with_structured_output call
    chatCalls,   \* the provider requests that call issued, in order
    chatOut,     \* its outcome: the returned text or the raised error
    chatCount,   \* chat_with_structured_output calls so far
    chatProbes,  \* probe invocations started by those calls, per key
    stChunks,    \* the chunks the vendor stream delivers
    stPos,       \* how many of them response_generator has consumed
    reasoning_started,   \* response_generator's flag
    stEvents,    \* the events response_generator has yielded, in order
    stDone,      \* TRUE once response_generator has returned
    detBody,     \* detect_behavior_from_raw_response: the argument resp_json
    detOut,      \* what it returned
    locModel,    \* LocalLLMClient.current_model, "" for None
    locLog,      \* the adapter operations so far, each with its result
    thRun,       \* one run of a two-call thinking procedure
    fldRun,      \* one structured request to a model classified field
    latest_tokens,   \* SummarizationManager._latest_tokens
    sumLog,      \* the should_process and mark_complete calls so far
    bakDb,       \* the database file: whether it exists, and its mtime
    bakFiles,    \* the files in the backups directory
    bakNow,      \* the clock, in the seconds of the backup timestamp
    bakLast,     \* the last create_backup call and what it returned
    db_instance, \* connection._db_instance, 0 for None
    db_lock,     \* the thread holding connection._db_lock, 0 when free
    dbThreads,   \* the threads calling initialize_database and get_db
    dbBuilt,     \* PatientDatabase constructions started so far
    engRun,      \* one ChatEngine.stream_chat run: its inputs and events
    schema_version,  \* the committed rows of the schema_version table
    migRun,      \* the run_migrations call in progress or just ended
    migCalls,    \* run_migrations calls so far
    callerObjs,  \* the caller's messages list, options dict and schema
    opRuns,      \* the client operations running on those objects
    lookLog      \* the get_model_thinking_behavior calls made so far

rjVars == <<rjParts, rjIn, rjOut, rjPass, rjPc>>
probeVars == <<cfg, capRows, tasks, lastProbe, updates>>
chatVars == <<chatArgs, chatCalls, chatOut, chatCount, chatProbes>>
streamVars == <<stChunks, stPos, reasoning_started, stEvents, stDone>>
coreVars == <<rjVars, probeVars, chatVars, streamVars>>
detectVars == <<detBody, detOut>>
localVars == <<locModel, locLog>>
thinkVars == <<thRun>>
earlyVars == <<coreVars, detectVars, localVars, thinkVars>>
fieldVars == <<fldRun>>
sumVars == <<latest_tokens, sumLog>>
bakVars == <<bakDb, bakFiles, bakNow, bakLast>>
dbVars == <<db_instance, db_lock, dbThreads, dbBuilt>>
engVars == <<engRun>>
migVars == <<schema_version, migRun, migCalls>>
objVars == <<callerObjs, opRuns>>
lookVars == <<lookLog>>
lateVars == <<fieldVars, sumVars, bakVars, dbVars, engVars, migVars, objVars,
             lookVars>>
fieldFrame == <<earlyVars, sumVars, bakVars, dbVars, engVars,
             migVars, objVars, lookVars>>
sumFrame == <<earlyVars, fieldVars, bakVars, dbVars, engVars,
             migVars, objVars, lookVars>>
bakFrame == <<earlyVars, fieldVars, sumVars, dbVars, engVars,
             migVars, objVars, lookVars>>
dbFrame == <<earlyVars, fieldVars, sumVars, bakVars, engVars,
             migVars, objVars, lookVars>>
engFrame == <<earlyVars, fieldVars, sumVars, bakVars, dbVars,
             migVars, objVars, lookVars>>
migFrame == <<earlyVars, fieldVars, sumVars, bakVars, dbVars,
             engVars, objVars, lookVars>>
objFrame == <<earlyVars, fieldVars, sumVars, bakVars, dbVars,
             engVars, migVars, lookVars>>
lookFrame == <<earlyVars, fieldVars, sumVars, bakVars, dbVars,
             engVars, migVars, objVars>>
restVars == <<detectVars, localVars, thinkVars, lateVars>>
vars == <<coreVars, restVars>>

(***************************************************************************)
(* Characters                                                              *)
(***************************************************************************)
\* a non-ASCII letter (e with an acute accent), named to keep the text ASCII
EAcute == "EACUTE"

Quote == "\""
Backslash == "\\"
NL == "\n"
CR == "\r"
TAB == "\t"

\* str.strip() with no argument and the regex class \s, on the characters used
Whitespace == {" ", NL, CR, TAB}

\* the regex class \w (Unicode-aware for str patterns), on the characters used
WordChars == {"a", "b", "j", "x", "t", "h", "i", "n", "k", "g", "r", "e", "s", "o",
              "A", "T", "H", "I", "N", "K", "G", "R", "E", "S", "O",
              "1", "2", EAcute}

Digits == {"1", "2"}

Front(s) == SubSeq(s, 1, Len(s) - 1)
Last(s) == s[Len(s)]

RECURSIVE LStrip(_)
LStrip(s) ==
    IF s # <<>> /\ Head(s) \in Whitespace THEN LStrip(Tail(s)) ELSE s

RECURSIVE RStrip(_)
RStrip(s) ==
    IF s # <<>> /\ Last(s) \in Whitespace THEN RStrip(Front(s)) ELSE s

Strip(s) == RStrip(LStrip(s))

\* str.lower() on the characters used
LowerChar(c) ==
    CASE c = "A" -> "a"
      [] c = "T" -> "t"
      [] c = "H" -> "h"
      [] c = "I" -> "i"
      [] c = "N" -> "n"
      [] c = "K" -> "k"
      [] c = "G" -> "g"
      [] c = "R" -> "r"
      [] c = "E" -> "e"
      [] c = "S" -> "s"
      [] c = "O" -> "o"
      [] OTHER -> c

Lower(s) == [i \in 1..Len(s) |-> LowerChar(s[i])]

StartsWithAt(s, i, p) ==
    /\ i >= 1
    /\ i + Len(p) - 1 <= Len(s)
    /\ SubSeq(s, i, i + Len(p) - 1) = p

\* str.find / the leftmost occurrence of p in s at or after i; 0 when none
RECURSIVE Find(_, _, _)
Find(s, p, i) ==
    IF i + Len(p) - 1 > Len(s) THEN 0
    ELSE IF StartsWithAt(s, i, p) THEN i
    ELSE Find(s, p, i + 1)

\* str.replace(c, rep) for a one-character c
RECURSIVE ReplaceChar(_, _, _)
ReplaceChar(s, c, rep) ==
    IF s = <<>> THEN <<>>
    ELSE (IF Head(s) = c THEN rep ELSE <<Head(s)>>)
         \o ReplaceChar(Tail(s), c, rep)

(***************************************************************************)
(* _escape_control_chars_in_json_strings                                   *)
(***************************************************************************)
\* the inner while loop: the index of the quote closing the string whose
\* content starts at j, 0 when the string is unclosed
RECURSIVE StringEnd(_, _)
StringEnd(s, j) ==
    IF j > Len(s) THEN 0
    ELSE IF s[j] = Backslash /\ j + 1 <= Len(s) THEN StringEnd(s, j + 2)
    ELSE IF s[j] = Quote THEN j
    ELSE StringEnd(s, j + 1)

\* the four replace calls applied to the content of one string literal
EscapeContent(content) ==
    LET e1 == ReplaceChar(content, Backslash, <<Backslash, Backslash>>)
        e2 == ReplaceChar(e1, NL, <<Backslash, "n">>)
        e3 == ReplaceChar(e2, CR, <<Backslash, "r">>)
        e4 == ReplaceChar(e3, TAB, <<Backslash, "t">>)
    IN e4

RECURSIVE EscapeFrom(_, _)
EscapeFrom(s, i) ==
    IF i > Len(s) THEN <<>>
    ELSE IF s[i] = Quote
    THEN LET j == StringEnd(s, i + 1)
         IN IF j = 0
            THEN SubSeq(s, i, Len(s))
            ELSE <<Quote>> \o EscapeContent(SubSeq(s, i + 1, j - 1))
                 \o <<Quote>> \o EscapeFrom(s, j + 1)
    ELSE <<s[i]>> \o EscapeFrom(s, i + 1)

EscapeControlCharsInJsonStrings(s) == EscapeFrom(s, 1)

(***************************************************************************)
(* json.loads: a lexer and a recursive-descent recognizer.  A token is a   *)
(* record [k, v]: k is the token kind and v the decoded string value or    *)
(* the digits of a number.  The token sequence of a text that parses is    *)
(* the value it parses to.                                                 *)
(***************************************************************************)
Tok(kind, val) == [k |-> kind, v |-> val]

\* the character after a backslash, decoded; "" when the escape is invalid
Unescape(c) ==
    CASE c = Quote -> Quote
      [] c = Backslash -> Backslash
      [] c = "/" -> "/"
      [] c = "n" -> NL
      [] c = "r" -> CR
      [] c = "t" -> TAB
      [] OTHER -> ""

\* py_scanstring in strict mode, from the character after the opening quote
RECURSIVE ScanString(_, _, _)
ScanString(s, j, acc) ==
    IF j > Len(s) THEN [end |-> 0, val |-> <<>>]
    ELSE IF s[j] = Quote THEN [end |-> j, val |-> acc]
    ELSE IF s[j] \in {NL, CR, TAB} THEN [end |-> 0, val |-> <<>>]
    ELSE IF s[j] = Backslash
    THEN IF j + 1 <= Len(s) /\ Unescape(s[j + 1]) # ""
         THEN ScanString(s, j + 2, Append(acc, Unescape(s[j + 1])))
         ELSE [end |-> 0, val |-> <<>>]
    ELSE ScanString(s, j + 1, Append(acc, s[j]))

RECURSIVE DigitsEnd(_, _)
DigitsEnd(s, i) ==
    IF i <= Len(s) /\ s[i] \in Digits THEN DigitsEnd(s, i + 1) ELSE i

\* NUMBER_RE, (-?(?:0|[1-9]\d*))(\.\d+)?([eE][-+]?\d+)?, on the characters
\* used: the index after the number starting at i, 0 when there is none
NumberEnd(s, i) ==
    LET d == IF s[i] = "-" THEN i + 1 ELSE i
        e == DigitsEnd(s, d)
    IN IF e = d THEN 0
       ELSE IF e <= Len(s) /\ s[e] \in {"e", "E"}
       THEN LET x == IF e + 1 <= Len(s) /\ s[e + 1] = "-" THEN e + 2 ELSE e + 1
                y == DigitsEnd(s, x)
            IN IF y = x THEN e ELSE y
       ELSE e

LexError == <<Tok("error", <<>>)>>

RECURSIVE Lex(_, _)
Lex(s, i) ==
    IF i > Len(s) THEN <<>>
    ELSE IF s[i] \in Whitespace THEN Lex(s, i + 1)
    ELSE IF s[i] \in {"{", "}", "[", "]", ":", ","}
    THEN <<Tok(s[i], <<>>)>> \o Lex(s, i + 1)
    ELSE IF s[i] = Quote
    THEN LET r == ScanString(s, i + 1, <<>>)
         IN IF r.end = 0 THEN LexError
            ELSE <<Tok("str", r.val)>> \o Lex(s, r.end + 1)
    ELSE IF s[i] = "-" \/ s[i] \in Digits
    THEN LET e == NumberEnd(s, i)
         IN IF e = 0 THEN LexError
            ELSE <<Tok("num", SubSeq(s, i, e - 1))>> \o Lex(s, e)
    ELSE IF StartsWithAt(s, i, <<"N", "a", "N">>)
    THEN <<Tok("lit", <<"N", "a", "N">>)>> \o Lex(s, i + 3)
    ELSE LexError

RECURSIVE ValueEnd(_, _)
RECURSIVE MembersEnd(_, _)
RECURSIVE ElementsEnd(_, _)

\* the index after the value that starts at t[i]; 0 when none starts there
ValueEnd(t, i) ==
    IF i > Len(t) THEN 0
    ELSE IF t[i].k \in {"str", "num", "lit"} THEN i + 1
    ELSE IF t[i].k = "{"
    THEN IF i + 1 <= Len(t) /\ t[i + 1].k = "}" THEN i + 2
         ELSE MembersEnd(t, i + 1)
    ELSE IF t[i].k = "["
    THEN IF i + 1 <= Len(t) /\ t[i + 1].k = "]" THEN i + 2
         ELSE ElementsEnd(t, i + 1)
    ELSE 0

MembersEnd(t, i) ==
    IF i + 1 <= Len(t) /\ t[i].k = "str" /\ t[i + 1].k = ":"
    THEN LET e == ValueEnd(t, i + 2)
         IN IF e = 0 \/ e > Len(t) THEN 0
            ELSE IF t[e].k = "}" THEN e + 1
            ELSE IF t[e].k = "," THEN MembersEnd(t, e + 1)
            ELSE 0
    ELSE 0

ElementsEnd(t, i) ==
    LET e == ValueEnd(t, i)
    IN IF e = 0 \/ e > Len(t) THEN 0
       ELSE IF t[e].k = "]" THEN e + 1
       ELSE IF t[e].k = "," THEN ElementsEnd(t, e + 1)
       ELSE 0

\* json.loads(s): ok is FALSE when it raises JSONDecodeError
JsonLoads(s) ==
    LET t == Lex(s, 1)
        ok == /\ t # <<>>
              /\ Last(t).k # "error"
              /\ ValueEnd(t, 1) = Len(t) + 1
    IN [ok |-> ok, value |-> IF ok THEN t ELSE <<>>]

Parses(s) == JsonLoads(s).ok

(***************************************************************************)
(* The repair passes of repair_json                                        *)
(***************************************************************************)
ThinkOpen == <<"<", "t", "h", "i", "n", "k">>
ThinkClose == <<"<", "/", "t", "h", "i", "n", "k", ">">>

\* the regex <think\b[^>]*>.*?</think> (IGNORECASE | DOTALL) tried at i:
\* the index of the last character of the match, 0 when it does not match
ThinkMatchEnd(s, i) ==
    LET low == Lower(s)
    IN IF ~StartsWithAt(low, i, ThinkOpen) THEN 0
       ELSE IF i + 6 <= Len(s) /\ s[i + 6] \in WordChars THEN 0
       ELSE LET g == Find(s, <<">">>, i + 6)
            IN IF g = 0 THEN 0
               ELSE LET c == Find(low, ThinkClose, g + 1)
                    IN IF c = 0 THEN 0 ELSE c + Len(ThinkClose) - 1

\* re.sub(pattern, "", s): every non-overlapping match, leftmost first
RECURSIVE SubThink(_, _)
SubThink(s, i) ==
    IF i > Len(s) THEN <<>>
    ELSE LET e == ThinkMatchEnd(s, i)
         IN IF e # 0 THEN SubThink(s, e + 1)
            ELSE <<s[i]>> \o SubThink(s, i + 1)

\* the guard "<think" in json_str.lower()
HasThink(s) == Find(Lower(s), ThinkOpen, 1) # 0

\* lines 84-92: the think-tag pass
StripThinkTags(s) == IF HasThink(s) THEN Strip(SubThink(s, 1)) ELSE s

\* the backquote character, which a TLA+ string cannot hold
Backquote == "BACKQUOTE"

Fence == <<Backquote, Backquote, Backquote>>

\* CODE_FENCE_RE tried at i: the opening fence, the rest of its line, the
\* body up to the first newline followed by a fence
FenceMatch(s, i) ==
    IF ~StartsWithAt(s, i, Fence) THEN [found |-> FALSE, body |-> <<>>]
    ELSE LET n1 == Find(s, <<NL>>, i + 3)
         IN IF n1 = 0 THEN [found |-> FALSE, body |-> <<>>]
            ELSE LET p == Find(s, <<NL>> \o Fence, n1 + 1)
                 IN IF p = 0 THEN [found |-> FALSE, body |-> <<>>]
                    ELSE [found |-> TRUE, body |-> SubSeq(s, n1 + 1, p - 1)]

\* CODE_FENCE_RE.search(s): the leftmost start at which the pattern matches
RECURSIVE FenceSearch(_, _)
FenceSearch(s, i) ==
    IF i > Len(s) THEN [found |-> FALSE, body |-> <<>>]
    ELSE LET m == FenceMatch(s, i)
         IN IF m.found THEN m ELSE FenceSearch(s, i + 1)

\* lines 103-106: the code-fence pass
ExtractCodeFence(s) ==
    LET m == FenceSearch(s, 1)
    IN IF m.found THEN Strip(m.body) ELSE s

\* re.match(r"^\s*\{\s*\{", s)
DoubleOpen(s) ==
    LET a == LStrip(s)
    IN /\ a # <<>>
       /\ Head(a) = "{"
       /\ LET b == LStrip(Tail(a)) IN b # <<>> /\ Head(b) = "{"

\* re.search(r"\}\s*\}\s*$", s)
DoubleClose(s) ==
    LET a == RStrip(s)
    IN /\ a # <<>>
       /\ Last(a) = "}"
       /\ LET b == RStrip(Front(a)) IN b # <<>> /\ Last(b) = "}"

\* re.sub(r"^\s*\{", "", s, count=1)
RemoveFirstOpen(s) ==
    LET a == LStrip(s)
    IN IF a # <<>> /\ Head(a) = "{" THEN Tail(a) ELSE s

\* re.sub(r"\}\s*$", "", s, count=1)
RemoveLastClose(s) ==
    LET a == RStrip(s)
    IN IF a # <<>> /\ Last(a) = "}" THEN Front(a) ELSE s

Returned(s) == [raised |-> "", out |-> s]
Raised(e) == [raised |-> e, out |-> <<>>]

\* lines 154-187: the pattern given to re.search on line 157 has an
\* unterminated character set, so compiling it raises re.error whatever the
\* text is; the statements after it never run
BulletStage(s) == Raised("re.error")

\* lines 116-152: symmetric, then open-only, then close-only
BraceStage(s) ==
    LET both == RemoveLastClose(RemoveFirstOpen(s))
        open == RemoveFirstOpen(s)
        close == RemoveLastClose(s)
    IN IF DoubleOpen(s) /\ DoubleClose(s) /\ Parses(both) THEN Returned(both)
       ELSE IF DoubleOpen(s) /\ Parses(open) THEN Returned(open)
       ELSE IF DoubleClose(s) /\ Parses(close) THEN Returned(close)
       ELSE BulletStage(s)

\* lines 102-114
FenceStage(s) ==
    LET m == FenceSearch(s, 1)
        s3 == ExtractCodeFence(s)
    IN IF m.found /\ Parses(s3) THEN Returned(s3) ELSE BraceStage(s3)

\* lines 83-100
ThinkStage(s) ==
    LET s2 == StripThinkTags(s)
    IN IF HasThink(s) /\ Parses(s2) THEN Returned(s2) ELSE FenceStage(s2)

\* repair_json
RepairJson(x) ==
    IF x = <<>> THEN Returned(<<>>)
    ELSE LET s1 == EscapeControlCharsInJsonStrings(Strip(x))
         IN IF Parses(s1) THEN Returned(s1) ELSE ThinkStage(s1)

\* one repair pass applied alone, as repair_json applies it
PassNames == {"escape", "think", "fence", "brace", "bullet"}

BracePass(s) ==
    LET r == BraceStage(s) IN IF r.raised = "" THEN r.out ELSE s

ApplyPass(p, s) ==
    CASE p = "escape" -> Returned(EscapeControlCharsInJsonStrings(s))
      [] p = "think" -> Returned(StripThinkTags(s))
      [] p = "fence" -> Returned(ExtractCodeFence(s))
      [] p = "brace" -> Returned(BracePass(s))
      [] p = "bullet" -> BulletStage(s)

(***************************************************************************)
(* The texts repair_json is applied to                                     *)
(***************************************************************************)
MaxBody == 2     \* characters in the body of a think-tag span
MaxStr == 2      \* items in the content of a generated string literal

UpperChar(c) ==
    CASE c = "a" -> "A"
      [] c = "t" -> "T"
      [] c = "h" -> "H"
      [] c = "i" -> "I"
      [] c = "n" -> "N"
      [] c = "k" -> "K"
      [] c = "g" -> "G"
      [] c = "r" -> "R"
      [] c = "e" -> "E"
      [] c = "s" -> "S"
      [] c = "o" -> "O"
      [] OTHER -> c

Upper(s) == [i \in 1..Len(s) |-> UpperChar(s[i])]

TagNames == { <<"t", "h", "i", "n", "k">>,
              <<"t", "h", "i", "n", "k", "i", "n", "g">>,
              <<"r", "e", "a", "s", "o", "n", "i", "n", "g">> }

TagBodies == UNION { [1..k -> {"x", NL, Quote}] : k \in 0..MaxBody }

TagSpan(name, body) == <<"<">> \o name \o <<">">> \o body
                       \o <<"<", "/">> \o name \o <<">">>

TagSpans == { TagSpan(n, b) : n \in TagNames \cup {Upper(m) : m \in TagNames},
                              b \in TagBodies }

\* what a string literal may hold: plain and non-ASCII characters, raw
\* control characters, and escape sequences
StrItems == { <<"x">>, <<EAcute>>, <<NL>>, <<CR>>, <<TAB>>,
              <<Backslash, Quote>>, <<Backslash, Backslash>>,
              <<Backslash, "n">> }

RECURSIVE StrContents(_)
StrContents(k) ==
    IF k = 0 THEN {<<>>}
    ELSE LET prev == StrContents(k - 1)
         IN prev \cup { c \o it : c \in prev, it \in StrItems }

\* the object {"a":"<content>"}
ObjectOf(content) ==
    <<"{", Quote, "a", Quote, ":", Quote>> \o content \o <<Quote, "}">>

StringObjects == { ObjectOf(c) : c \in StrContents(MaxStr) }

ObjA1 == <<"{", Quote, "a", Quote, ":", "1", "}">>

OtherTexts ==
    { ObjA1,
      <<"{", "}">>,
      <<"[", "1", ",", "2", "]">>,
      <<Quote, "a", Quote>>,
      <<"{", Quote, "a", Quote, ":", "{", Quote, "b", Quote, ":", "1", "}", "}">>,
      <<"{", Quote, "a", Quote, ":", "1", ",", NL,
        Quote, "b", Quote, ":", "2", "}">>,
      <<"x">>,
      <<"{", Quote, "a", Quote, ":", "1">>,
      <<"{", Quote, "a", Quote, ":", Quote, "x">>,
      <<"a", ":", "1">> }

SmallTexts ==
    { ObjA1,
      <<"[", "1", ",", "2", "]">>,
      ObjectOf(<<"x">>),
      ObjectOf(<<Backslash, Quote>>),
      <<"{", Quote, "a", Quote, ":", "1", ",", NL,
        Quote, "b", Quote, ":", "2", "}">>,
      <<"x">> }

Pads == { <<>>, <<" ">>, <<NL>> }
Opens == { <<"{">>, <<"{", " ">> }
Closes == { <<"}">>, <<" ", "}">> }
FenceOpen == Fence \o <<"j", "s", "o", "n", NL>>
FenceClose == <<NL>> \o Fence

Parts(pre, core, post) == [pre |-> pre, core |-> core, post |-> post]

RepairInputs ==
    \* a text alone, possibly padded with whitespace
    { Parts(w, c, w) : w \in Pads, c \in StringObjects \cup OtherTexts }
    \* a think-tag span before a text
    \cup { Parts(sp, c, <<>>) : sp \in TagSpans, c \in SmallTexts }
    \* one extra brace layer: symmetric, open only, close only
    \cup { Parts(o, c, cl) : o \in Opens \cup {<<>>}, c \in SmallTexts
                                \cup {ObjectOf(<<>>), <<"{", "}">>,
                                      ObjectOf(<<NL>>)},
                             cl \in Closes \cup {<<>>} }
    \* a text in a code fence
    \cup { Parts(FenceOpen, c, FenceClose) : c \in SmallTexts }
    \* the empty text
    \cup { Parts(<<>>, <<>>, <<>>) }

TextOf(parts) == parts.pre \o parts.core \o parts.post

NoOutcome == [raised |-> "none", out |-> <<>>]

InitRepair ==
    /\ rjParts \in RepairInputs
    /\ rjIn = TextOf(rjParts)
    /\ rjOut = NoOutcome
    /\ rjPass = ""
    /\ rjPc = "input"

\* repair_json(json_str)
CallRepairJson ==
    /\ rjPc = "input"
    /\ rjOut' = RepairJson(rjIn)
    /\ rjPass' = ""
    /\ rjPc' = "done"
    /\ UNCHANGED <<rjParts, rjIn>>
    /\ UNCHANGED <<probeVars, chatVars, streamVars, restVars>>

\* one pass of the pipeline applied alone to the text
CallPass(p) ==
    /\ rjPc = "input"
    /\ rjOut' = ApplyPass(p, rjIn)
    /\ rjPass' = p
    /\ rjPc' = "done"
    /\ UNCHANGED <<rjParts, rjIn>>
    /\ UNCHANGED <<probeVars, chatVars, streamVars, restVars>>

NextRepair ==
    \/ CallRepairJson
    \/ \E p \in PassNames : CallPass(p)

(***************************************************************************)
(* Capability detection: detect_behavior_from_raw_response                 *)
(***************************************************************************)
\* a JSON value held under a key of the response message: absent, null, a
\* number, or a string s
Val(type, s) == [t |-> type, s |-> s]
Absent == Val("absent", <<>>)
Null == Val("null", <<>>)
Num == Val("num", <<>>)
Str(s) == Val("str", s)

TagList == << [name |-> "think", chars |-> <<"t", "h", "i", "n", "k">>],
              [name |-> "thinking",
               chars |-> <<"t", "h", "i", "n", "k", "i", "n", "g">>],
              [name |-> "reasoning",
               chars |-> <<"r", "e", "a", "s", "o", "n", "i", "n", "g">>] >>

RECURSIVE SkipWs(_, _)
SkipWs(s, i) ==
    IF i <= Len(s) /\ s[i] \in Whitespace THEN SkipWs(s, i + 1) ELSE i

\* <\s*NAME\s*> (or </\s*NAME\s*> when closing) tried at i: the index of
\* its ">", 0 when it does not match
TagAt(s, i, chars, closing) ==
    LET low == Lower(s)
        a == IF closing THEN i + 2 ELSE i + 1
        j == SkipWs(s, a)
        k == SkipWs(s, j + Len(chars))
    IN IF /\ StartsWithAt(s, i, IF closing THEN <<"<", "/">> ELSE <<"<">>)
          /\ StartsWithAt(low, j, chars)
          /\ k <= Len(s)
          /\ s[k] = ">"
       THEN k ELSE 0

\* a search that accepts the closing tag of any of the three names
FindCloseOfAnyName(s, i, chars) ==
    LET ends == { TagAt(s, j, TagList[n].chars, TRUE) :
                    j \in i..Len(s), n \in 1..Len(TagList) } \ {0}
    IN IF ends = {} THEN 0 ELSE CHOOSE e \in ends : \A f \in ends : e <= f

RECURSIVE FindClose(_, _, _)
FindClose(s, i, chars) ==
    IF i > Len(s) THEN 0
    ELSE IF TagAt(s, i, chars, TRUE) # 0 THEN TagAt(s, i, chars, TRUE)
    ELSE FindClose(s, i + 1, chars)

\* THINK_TAG_REGEX tried at i: the alternatives in their order
RECURSIVE ThinkTagAt(_, _, _)
ThinkTagAt(s, i, n) ==
    IF n > Len(TagList) THEN [end |-> 0, name |-> ""]
    ELSE LET o == TagAt(s, i, TagList[n].chars, FALSE)
             c == IF o = 0 THEN 0 ELSE FindClose(s, o + 1, TagList[n].chars)
         IN IF c # 0 THEN [end |-> c, name |-> TagList[n].name]
            ELSE ThinkTagAt(s, i, n + 1)

\* THINK_TAG_REGEX.finditer(s): the tag names of the matches from i on
RECURSIVE ThinkTagNames(_, _)
ThinkTagNames(s, i) ==
    IF i > Len(s) THEN {}
    ELSE LET m == ThinkTagAt(s, i, 1)
         IN IF m.end # 0 THEN {m.name} \cup ThinkTagNames(s, m.end + 1)
            ELSE ThinkTagNames(s, i + 1)

Behavior(type, field, tags) ==
    [capability_type |-> type, reasoning_field_name |-> field,
     tag_names |-> tags]

BehaviorNone == Behavior("none", "", {})

ReasoningKeys == <<"reasoning_content", "reasoning", "thoughts">>

\* a loop that lets a later key override an earlier one
LastReasoningKey(fields, n) ==
    LET pop == { i \in n..Len(ReasoningKeys) :
                   /\ fields[ReasoningKeys[i]].t = "str"
                   /\ Strip(fields[ReasoningKeys[i]].s) # <<>> }
    IN IF pop = {} THEN ""
       ELSE ReasoningKeys[CHOOSE i \in pop : \A j \in pop : j <= i]

\* the loop over the reasoning keys, lines 35-38
RECURSIVE FirstReasoningKey(_, _)
FirstReasoningKey(fields, n) ==
    IF n > Len(ReasoningKeys) THEN ""
    ELSE LET v == fields[ReasoningKeys[n]]
         IN IF v.t = "str" /\ Strip(v.s) # <<>> THEN ReasoningKeys[n]
            ELSE FirstReasoningKey(fields, n + 1)

\* detect_behavior_from_raw_response: every exception raised inside it is
\* caught by its own handler, which returns ("none", None, None)
DetectBehaviorFromRawResponse(body) ==
    IF body.kind # "dict" THEN BehaviorNone
    ELSE IF body.choices \in {"absent", "null", "empty"} THEN BehaviorNone
    ELSE IF body.choices = "string" \/ body.first # "dict" THEN BehaviorNone
    ELSE IF body.message = "string" THEN BehaviorNone
    ELSE LET fields == IF body.message = "dict" THEN body.fields
                       ELSE [reasoning_content |-> Absent, reasoning |-> Absent,
                             thoughts |-> Absent, content |-> Absent]
             key == FirstReasoningKey(fields, 1)
             names == IF fields.content.t = "str"
                      THEN ThinkTagNames(fields.content.s, 1) ELSE {}
         IN IF key # "" THEN Behavior("field", key, {})
            ELSE IF names # {} THEN Behavior("tags", "", names)
            ELSE BehaviorNone

(***************************************************************************)
(* The responses a probe request can get                                   *)
(***************************************************************************)
Fields(rc, r, th, c) ==
    [reasoning_content |-> rc, reasoning |-> r, thoughts |-> th, content |-> c]

NoFields == Fields(Absent, Absent, Absent, Absent)

Body(kind, choices, first, message, fields) ==
    [kind |-> kind, choices |-> choices, first |-> first,
     message |-> message, fields |-> fields]

MessageBody(fields) == Body("dict", "list", "dict", "dict", fields)

Hello == <<"h", "i">>
TaggedHello == <<"<", "t", "h", "i", "n", "k", ">", "x",
                 "<", "/", "t", "h", "i", "n", "k", ">", "h", "i">>

\* bodies of a 200 response that is what the API documents
GoodBodies ==
    { MessageBody(Fields(Absent, Absent, Absent, Str(Hello))),
      MessageBody(Fields(Absent, Absent, Absent, Str(TaggedHello))),
      MessageBody(Fields(Str(<<"r">>), Absent, Absent, Str(Hello))),
      MessageBody(Fields(Absent, Str(<<"r">>), Absent, Str(TaggedHello))) }

\* bodies that are not JSON, not the documented shape, or lack fields
BadBodies ==
    { Body("notjson", "absent", "dict", "absent", NoFields),
      Body("null", "absent", "dict", "absent", NoFields),
      Body("list", "absent", "dict", "absent", NoFields),
      Body("dict", "absent", "dict", "absent", NoFields),
      Body("dict", "null", "dict", "absent", NoFields),
      Body("dict", "empty", "dict", "absent", NoFields),
      Body("dict", "string", "dict", "absent", NoFields),
      Body("dict", "list", "string", "absent", NoFields),
      Body("dict", "list", "dict", "absent", NoFields),
      Body("dict", "list", "dict", "string", NoFields),
      MessageBody(NoFields),
      MessageBody(Fields(Null, Num, Absent, Null)) }

NoBody == Body("none", "absent", "dict", "absent", NoFields)

Outcome(net, status, body) == [net |-> net, status |-> status, body |-> body]

ProbeOutcomes ==
    { Outcome("connect_error", 0, NoBody), Outcome("timeout", 0, NoBody) }
    \cup { Outcome("response", st, NoBody) : st \in {404, 500} }
    \cup { Outcome("response", 200, b) : b \in GoodBodies \cup BadBodies }

(***************************************************************************)
(* The capability store and probe_and_store_model_behavior                 *)
(***************************************************************************)
ProviderNames == {"ollama", "openai", "OpenAI", "local"}
ModelNames == {"llama3", "deepseek-r1"}

\* str.lower() on the provider names used
LowerName(p) == IF p = "OpenAI" THEN "openai" ELSE p

Keys == {LowerName(p) : p \in ProviderNames} \X ModelNames

Row(behavior, hasSample, body) ==
    [capability_type |-> behavior.capability_type,
     reasoning_field_name |-> behavior.reasoning_field_name,
     tag_names |-> behavior.tag_names,
     has_sample |-> hasSample, sample |-> body]

NoRow == [capability_type |-> "absent", reasoning_field_name |-> "",
          tag_names |-> {}, has_sample |-> FALSE, sample |-> NoBody]

\* db.upsert_model_capability: the table's primary key is (provider, model)
UpsertModelCapability(rows, provider, model, row) ==
    [rows EXCEPT ![<<provider, model>>] = row]

\* db.get_model_capability
GetModelCapability(rows, provider, model) == rows[<<provider, model>>]

\* what one probe invocation did: what it returned (or that it raised), the
\* row it stored, and the requests it sent
ProbeResult(raised, probed, behavior, hasSample, body) ==
    [raised |-> raised, probed |-> probed, behavior |-> behavior,
     stores |-> ~raised, row |-> Row(behavior, hasSample, body)]

\* a probe that skipped the request for the ollama provider only
ProbeSkipsOnlyOllama(provider, base_url) == provider = "ollama"

\* lines 74-108: no request is sent for this provider and base URL
ProbeSkipsRequest(provider, base_url) ==
    \/ provider = "ollama"
    \/ provider # "openai"
    \/ base_url = ""

\* lines 120-179, the body of the try statement: exc is TRUE when it raises
ProbeTryBody(outcome) ==
    IF outcome.net # "response"
    THEN [exc |-> TRUE, probed |-> FALSE, behavior |-> BehaviorNone,
          has_sample |-> FALSE, body |-> NoBody]
    ELSE IF outcome.status # 200
    THEN [exc |-> FALSE, probed |-> FALSE, behavior |-> BehaviorNone,
          has_sample |-> FALSE, body |-> NoBody]
    ELSE IF outcome.body.kind = "notjson"
    THEN [exc |-> TRUE, probed |-> FALSE, behavior |-> BehaviorNone,
          has_sample |-> FALSE, body |-> NoBody]
    ELSE [exc |-> FALSE, probed |-> TRUE,
          behavior |-> DetectBehaviorFromRawResponse(outcome.body),
          has_sample |-> TRUE, body |-> outcome.body]

\* the try statement without its handler: an exception leaves the function
ProbeAfterRequestUnhandled(outcome) ==
    LET b == ProbeTryBody(outcome)
    IN IF b.exc
       THEN ProbeResult(TRUE, FALSE, BehaviorNone, FALSE, NoBody)
       ELSE ProbeResult(FALSE, b.probed, b.behavior, b.has_sample, b.body)

\* lines 120-196: the try statement with its handler
ProbeAfterRequest(outcome) ==
    LET b == ProbeTryBody(outcome)
    IN IF b.exc
       THEN ProbeResult(FALSE, FALSE, BehaviorNone, FALSE, NoBody)
       ELSE ProbeResult(FALSE, b.probed, b.behavior, b.has_sample, b.body)

\* lines 78-90 and 96-108
ProbeWithoutRequest == ProbeResult(FALSE, FALSE, BehaviorNone, FALSE, NoBody)

Url == "http://llm"

Config(provider, base_url, primary, secondary, reasoningEnabled) ==
    [LLM_PROVIDER |-> provider, LLM_BASE_URL |-> base_url,
     PRIMARY_MODEL |-> primary, SECONDARY_MODEL |-> secondary,
     REASONING_ENABLED |-> reasoningEnabled,
     REASONING_MODEL |-> "deepseek-r1"]

Configs ==
    { Config(pu[1], pu[2], "llama3", s, e) :
        pu \in { <<"ollama", Url>>, <<"local", "">>, <<"openai", Url>>,
                 <<"openai", "">>, <<"OpenAI", Url>> },
        s \in ModelNames \cup {""},
        e \in BOOLEAN }

MaxUpdates == 1   \* update_config calls in one behaviour
MaxChats == 2     \* chat_with_structured_output calls in one behaviour

Task(provider, base_url, model) ==
    [provider |-> provider, base_url |-> base_url, model |-> model,
     pc |-> "scheduled"]

\* lines 32-44: the models to check, in order, and one task for each
RECURSIVE TasksFor(_, _)
TasksFor(c, keys) ==
    IF keys = <<>> THEN <<>>
    ELSE LET model == c[Head(keys)]
         IN (IF model # "" /\ c.LLM_PROVIDER # ""
             THEN <<Task(c.LLM_PROVIDER, c.LLM_BASE_URL, model)>>
             ELSE <<>>)
            \o TasksFor(c, Tail(keys))

ModelsToCheck(c) ==
    <<"PRIMARY_MODEL", "SECONDARY_MODEL">>
    \o (IF c.REASONING_ENABLED THEN <<"REASONING_MODEL">> ELSE <<>>)

NoProbe == [provider |-> "", base_url |-> "", model |-> "", outcome |-> Outcome("none", 0, NoBody),
            requests |-> 0,
            result |-> ProbeResult(FALSE, FALSE, BehaviorNone, FALSE, NoBody)]

\* the configuration before any update
DefaultConfig == Config("ollama", Url, "llama3", "", FALSE)

InitProbe ==
    /\ cfg = DefaultConfig
    /\ capRows = [k \in Keys |-> NoRow]
    /\ tasks = <<>>
    /\ lastProbe = NoProbe
    /\ updates = 0

\* update_config(data): the configuration is saved, then one probe task is
\* created for each model to check
UpdateConfig(data) ==
    /\ updates < MaxUpdates
    /\ updates' = updates + 1
    /\ cfg' = data
    /\ tasks' = tasks \o TasksFor(data, ModelsToCheck(data))
    /\ UNCHANGED <<capRows, lastProbe>>
    /\ UNCHANGED <<rjVars, chatVars, streamVars, restVars>>

RemoveAt(s, i) == SubSeq(s, 1, i - 1) \o SubSeq(s, i + 1, Len(s))

\* the event loop starts the tasks in the order they were created
FirstScheduled ==
    IF \E i \in 1..Len(tasks) : tasks[i].pc = "scheduled"
    THEN CHOOSE i \in 1..Len(tasks) :
            /\ tasks[i].pc = "scheduled"
            /\ \A j \in 1..(i - 1) : tasks[j].pc # "scheduled"
    ELSE 0

\* a probe whose write is dropped when its key already has a row
ReturnsFirstWriteWins(task, outcome, requests, result) ==
    /\ lastProbe' = [provider |-> LowerName(task.provider),
                     base_url |-> task.base_url,
                     model |-> task.model, outcome |-> outcome,
                     requests |-> requests, result |-> result]
    /\ capRows' = IF /\ result.stores
                     /\ capRows[<<LowerName(task.provider), task.model>>] = NoRow
                  THEN UpsertModelCapability(capRows, LowerName(task.provider),
                                             task.model, result.row)
                  ELSE capRows

Returns(task, outcome, requests, result) ==
    /\ lastProbe' = [provider |-> LowerName(task.provider),
                     base_url |-> task.base_url,
                     model |-> task.model, outcome |-> outcome,
                     requests |-> requests, result |-> result]
    /\ capRows' = IF result.stores
                  THEN UpsertModelCapability(capRows, LowerName(task.provider),
                                             task.model, result.row)
                  ELSE capRows

\* probe_and_store_model_behavior up to its first suspension: it returns at
\* once when it sends no request, and waits for the response otherwise
ProbeStart ==
    /\ FirstScheduled # 0
    /\ LET i == FirstScheduled
           task == tasks[i]
       IN IF ProbeSkipsRequest(LowerName(task.provider), task.base_url)
          THEN /\ Returns(task, Outcome("none", 0, NoBody), 0,
                          ProbeWithoutRequest)
               /\ tasks' = RemoveAt(tasks, i)
          ELSE /\ tasks' = [tasks EXCEPT ![i].pc = "awaiting"]
               /\ UNCHANGED <<capRows, lastProbe>>
    /\ UNCHANGED <<cfg, updates>>
    /\ UNCHANGED <<rjVars, chatVars, streamVars, restVars>>

\* the rest of probe_and_store_model_behavior, once the request has ended
ProbeFinish(i, outcome) ==
    /\ i \in 1..Len(tasks)
    /\ tasks[i].pc = "awaiting"
    /\ Returns(tasks[i], outcome, 1, ProbeAfterRequest(outcome))
    /\ tasks' = RemoveAt(tasks, i)
    /\ UNCHANGED <<cfg, updates>>
    /\ UNCHANGED <<rjVars, chatVars, streamVars, restVars>>

(***************************************************************************)
(* get_model_thinking_behavior                                             *)
(***************************************************************************)
\* the name heuristic the lookup is documented to fall back on: a model
\* whose name holds a token of a known reasoning family is classified tags
ReasoningFamilyModels == {"deepseek-r1"}

FallbackBehaviorFromName(model) ==
    IF model \in ReasoningFamilyModels THEN "tags" ELSE "none"

GetModelThinkingBehavior(c, rows, model) ==
    LET provider == LowerName(c.LLM_PROVIDER)
        rec == IF model # "" THEN GetModelCapability(rows, provider, model)
               ELSE NoRow
    IN IF rec # NoRow
       THEN IF rec.capability_type = "tags" THEN "tags"
            ELSE IF rec.capability_type = "field" THEN "field"
            ELSE "none"
       ELSE "NameError"   \* _fallback_behavior_from_name is defined nowhere

\* is_thinking_model: True only for the tags behaviour
IsThinkingModel(c, rows, model) ==
    LET b == GetModelThinkingBehavior(c, rows, model)
    IN IF b = "NameError" THEN b ELSE IF b = "tags" THEN "True" ELSE "False"

MaxLookups == 2    \* lookups in one run

InitLookup == lookLog = <<>>

\* one get_model_thinking_behavior(model_name) call and one
\* is_thinking_model(model_name) call, against the store as it is
BehaviorLookup(model) ==
    /\ Len(lookLog) < MaxLookups
    /\ lookLog' = Append(lookLog,
          [model |-> model,
           result |-> GetModelThinkingBehavior(cfg, capRows, model),
           is_thinking |-> IsThinkingModel(cfg, capRows, model)])
    /\ UNCHANGED lookFrame

NextLookup == \E model \in ModelNames \cup {""} : BehaviorLookup(model)

(***************************************************************************)
(* AsyncLLMClient.chat and chat_with_structured_output                     *)
(***************************************************************************)
ProviderTypes == {"ollama", "openai", "local"}   \* LLMProviderType

\* the em dash and the en dash, which a TLA+ string cannot hold
EmDash == "EMDASH"
EnDash == "ENDASH"

\* unidecode() on the characters used: ASCII is kept, the accented e becomes e
Unidecode(s) == ReplaceChar(s, EAcute, <<"e">>)

\* .replace(em dash, "-").replace(en dash, "-")
ReplaceDashes(s) == ReplaceChar(ReplaceChar(s, EmDash, <<"-">>), EnDash, <<"-">>)

Options(given, temperature, stop) ==
    [given |-> given, temperature |-> temperature, stop |-> stop]

NoOptions == Options(FALSE, "", <<>>)

CallerOptions == { NoOptions, Options(TRUE, "0.1", <<>>) }

CallerMessages == << [role |-> "system", content |-> <<"s">>],
                     [role |-> "user", content |-> <<"x">>] >>

\* one request to a provider; schemaField is the parameter that carries the
\* schema and schemaShape the shape of its value
Request(api, model, messages, schemaField, schemaShape, options) ==
    [api |-> api, model |-> model, messages |-> messages,
     schemaField |-> schemaField, schemaShape |-> schemaShape,
     options |-> options]

\* what the provider answers: a transport or status failure, or a message
\* whose content is a string or null
Reply(ok, content) == [ok |-> ok, content |-> content]

FailedReply == Reply(FALSE, Null)

ChatResult(calls, raised, content) ==
    [calls |-> calls, raised |-> raised, content |-> content]

\* ollama_chat, not streaming: one client.chat call, whose error is raised
OllamaChat(model, messages, format, options, reply) ==
    LET req == Request("ollama.chat", model, messages, "format",
                       IF format THEN "object" ELSE "none", options)
    IN IF reply.ok THEN ChatResult(<<req>>, "", reply.content)
       ELSE ChatResult(<<req>>, "ProviderError", Null)

\* openai_compatible_chat, not streaming: temperature and stop are copied
\* from the options, the schema is wrapped in a one-element tuple, and a
\* null content becomes ""
OpenaiCompatibleChat(model, messages, format, options, reply) ==
    LET req == Request("chat.completions.create", model, messages,
                       IF format THEN "response_format" ELSE "none",
                       IF format THEN "tuple" ELSE "none",
                       IF options.given THEN options ELSE NoOptions)
    IN IF reply.ok
       THEN ChatResult(<<req>>, "",
                       IF reply.content.t = "str" THEN reply.content
                       ELSE Str(<<>>))
       ELSE ChatResult(<<req>>, "ProviderError", Null)

\* AsyncLLMClient.chat for the two remote provider types
Chat(ptype, model, messages, format, options, reply) ==
    IF ptype = "ollama"
    THEN OllamaChat(model, messages, format, options, reply)
    ELSE OpenaiCompatibleChat(model, messages, format, options, reply)

\* a client that probed the model on every call
ProbesStartedOnEveryChat(provider, model) == {<<provider, model>>}

\* lines 141-159 start no probe and read no classification
ProbesStartedByChat(provider, model) == {}

\* chat_with_structured_output: LocalLLMClient defines no
\* chat_with_structured_output, so the local branch raises AttributeError;
\* a null content has no replace method
ChatWithStructuredOutput(ptype, model, messages, options, reply) ==
    IF ptype = "local" THEN [calls |-> <<>>, outcome |-> Raised("AttributeError")]
    ELSE LET r == Chat(ptype, model, messages, TRUE, options, reply)
         IN IF r.raised # "" THEN [calls |-> r.calls, outcome |-> Raised(r.raised)]
            ELSE IF r.content.t # "str"
            THEN [calls |-> r.calls, outcome |-> Raised("AttributeError")]
            ELSE [calls |-> r.calls,
                  outcome |-> RepairJson(Unidecode(ReplaceDashes(r.content.s)))]

\* get_llm_client: the provider type of the client it builds, "error" when
\* the constructor raises ValueError
GetLlmClient(c) ==
    LET p == LowerName(c.LLM_PROVIDER)
    IN IF p = "local" THEN "ollama"
       ELSE IF c.LLM_BASE_URL = "" THEN "error"
       ELSE p

NoChatArgs == [ptype |-> "", model |-> "", options |-> NoOptions,
               reply |-> FailedReply, behavior |-> "", previous |-> ""]

InitChat ==
    /\ chatArgs = NoChatArgs
    /\ chatCalls = <<>>
    /\ chatOut = NoOutcome
    /\ chatCount = 0
    /\ chatProbes = [k \in Keys |-> 0]

\* one chat_with_structured_output call on a client of type ptype
StructuredChat(ptype, model, options, reply) ==
    /\ chatCount < MaxChats
    /\ LET r == ChatWithStructuredOutput(ptype, model, CallerMessages,
                                         options, reply)
       IN /\ chatCalls' = r.calls
          /\ chatOut' = r.outcome
    /\ chatArgs' = [ptype |-> ptype, model |-> model, options |-> options,
                    reply |-> reply,
                    behavior |-> GetModelThinkingBehavior(cfg, capRows, model),
                    previous |-> chatArgs.model]
    /\ chatCount' = chatCount + 1
    /\ chatProbes' =
         [k \in Keys |->
            IF k \in ProbesStartedByChat(LowerName(cfg.LLM_PROVIDER), model)
            THEN chatProbes[k] + 1 ELSE chatProbes[k]]
    /\ UNCHANGED <<rjVars, probeVars, streamVars, restVars>>

\* the contents a model may answer with
ReplyTexts ==
    { <<>>, <<"x">>, ObjA1, <<" ">> \o ObjA1,
      <<"{", Quote, "a", Quote, ":", "1">>,
      ObjectOf(<<"x">>), ObjectOf(<<EAcute>>), ObjectOf(<<EmDash>>),
      ObjectOf(<<NL>>),
      ObjectOf(<<Backslash, Quote>>), ObjectOf(<<Backslash, Backslash>>),
      ObjectOf(<<Backslash, "n">>),
      TagSpan(<<"t", "h", "i", "n", "k">>, <<"x">>) \o ObjA1,
      <<"{">> \o ObjA1 \o <<"}">> }

Replies == {FailedReply, Reply(TRUE, Null)} \cup {Reply(TRUE, Str(s)) : s \in ReplyTexts}

(***************************************************************************)
(* openai_compatible_chat, streaming: response_generator                   *)
(***************************************************************************)
MaxChunks == 3    \* chunks in one vendor stream

\* one vendor chunk; a text of "" stands for an attribute that is missing,
\* None or empty, which the generator does not tell apart
Chunk(choices, content, reasoning, reasoning_content, tool_calls) ==
    [choices |-> choices, content |-> content, reasoning |-> reasoning,
     reasoning_content |-> reasoning_content, tool_calls |-> tool_calls]

ChunkKinds ==
    { Chunk(TRUE, "", "", "a", FALSE),     \* reasoning only
      Chunk(TRUE, "", "", "b", FALSE),
      Chunk(TRUE, "", "a", "", FALSE),
      Chunk(TRUE, "c", "", "", FALSE),     \* content only
      Chunk(TRUE, "d", "", "", FALSE),
      Chunk(TRUE, "c", "a", "", FALSE),    \* reasoning and content
      Chunk(TRUE, "", "", "", FALSE),      \* neither
      Chunk(TRUE, "", "", "", TRUE),       \* tool calls only
      Chunk(TRUE, "c", "", "", TRUE),
      Chunk(FALSE, "", "", "", FALSE) }    \* no choices

ChunkStreams == UNION { [1..n -> ChunkKinds] : n \in 0..MaxChunks }

Event(content, tool_calls) == [content |-> content, tool_calls |-> tool_calls]

ThinkOpenMarker == "<think>"
ThinkCloseMarker == "</think>\n\n"

\* getattr(delta, "reasoning", None) or getattr(delta, "reasoning_content", None)
ChunkReasoning(c) ==
    IF c.reasoning # "" THEN c.reasoning ELSE c.reasoning_content

\* the events yielded for one chunk, lines 63-127
ChunkEvents(c, started) ==
    IF ~c.choices THEN <<>>
    ELSE LET reasoning == ChunkReasoning(c)
         IN (IF reasoning # ""
             THEN (IF ~started THEN <<Event(ThinkOpenMarker, FALSE)>> ELSE <<>>)
                  \o <<Event(reasoning, FALSE)>>
             ELSE IF c.content # "" /\ started
             THEN <<Event(ThinkCloseMarker, FALSE)>>
             ELSE <<>>)
            \o <<Event(c.content, c.tool_calls)>>

\* reasoning_started after one chunk
StartedAfter(c, started) ==
    IF ~c.choices THEN started
    ELSE IF ChunkReasoning(c) # "" THEN TRUE
    ELSE IF c.content # "" THEN FALSE
    ELSE started

InitStream ==
    /\ stChunks \in ChunkStreams
    /\ stPos = 0
    /\ reasoning_started = FALSE
    /\ stEvents = <<>>
    /\ stDone = FALSE

\* one iteration of the async for loop
StreamChunk ==
    /\ ~stDone
    /\ stPos < Len(stChunks)
    /\ stPos' = stPos + 1
    /\ stEvents' = stEvents \o ChunkEvents(stChunks[stPos + 1], reasoning_started)
    /\ reasoning_started' = StartedAfter(stChunks[stPos + 1], reasoning_started)
    /\ UNCHANGED <<stChunks, stDone>>
    /\ UNCHANGED <<rjVars, probeVars, chatVars, restVars>>

\* the vendor stream is exhausted and the generator returns
StreamEnd ==
    /\ ~stDone
    /\ stPos = Len(stChunks)
    /\ stDone' = TRUE
    /\ UNCHANGED <<stChunks, stPos, reasoning_started, stEvents>>
    /\ UNCHANGED <<rjVars, probeVars, chatVars, restVars>>

NextStream == StreamChunk \/ StreamEnd

(***************************************************************************)
(* The provider adapters: LocalLLMClient, and AsyncLLMClient.chat over the *)
(* three provider types                                                    *)
(***************************************************************************)
MaxLocalOps == 2   \* operations on one LocalLLMClient in one behaviour

\* what the provider does with one request: it answers with a status, or
\* the connection fails
Answer(net, status, content) ==
    [net |-> net, status |-> status, content |-> content]

ProviderAnswers ==
    { Answer("response", 200, Str(Hello)),
      Answer("response", 200, Absent),
      Answer("response", 401, Absent),
      Answer("response", 500, Absent),
      Answer("connect_error", 0, Absent),
      Answer("timeout", 0, Absent) }

AnswerOk(a) == a.net = "response" /\ a.status = 200

\* LocalModelManager.__init__(self) takes no argument
LocalModelManagerInit(args) ==
    IF Len(args) = 0 THEN "" ELSE "TypeError"

\* LocalLLMClient.load_model(model_name): the manager is constructed with
\* self.ollama_url; current_model is assigned last
LocalLoadModel(current_model, args, available) ==
    IF Len(args) # 1
    THEN [raised |-> "TypeError", current_model |-> current_model]
    ELSE IF LocalModelManagerInit(<<"ollama_url">>) # ""
    THEN [raised |-> LocalModelManagerInit(<<"ollama_url">>),
          current_model |-> current_model]
    ELSE IF ~available
    THEN [raised |-> "FileNotFoundError", current_model |-> current_model]
    ELSE [raised |-> "", current_model |-> args[1]]

\* AsyncLLMClient.load_local_model(model_path_or_repo, filename=None)
LoadLocalModel(ptype, current_model, model_path_or_repo, available) ==
    IF ptype # "local"
    THEN [raised |-> "RuntimeError", current_model |-> current_model]
    ELSE LocalLoadModel(current_model, <<model_path_or_repo, "">>, available)

\* LocalLLMClient.chat(messages, **kwargs): a status other than 200 falls
\* through to return ""
LocalChat(current_model, messages, options, answer) ==
    IF current_model = ""
    THEN ChatResult(<<>>, "ValueError", Null)
    ELSE LET req == Request("api/generate", current_model, messages,
                            "none", "none", options)
         IN IF answer.net # "response"
            THEN ChatResult(<<req>>, "ClientError", Null)
            ELSE IF answer.status = 200
            THEN ChatResult(<<req>>, "",
                            IF answer.content.t = "str" THEN answer.content
                            ELSE Str(<<>>))
            ELSE ChatResult(<<req>>, "", Str(<<>>))

\* AsyncLLMClient.chat, not streaming, on a client of any provider type
AdapterChat(ptype, current_model, model, messages, format, options, answer) ==
    IF ptype = "local"
    THEN LocalChat(current_model, messages, options, answer)
    ELSE Chat(ptype, model, messages, format, options,
              Reply(AnswerOk(answer), answer.content))

LogEntry(op, ptype, arg, answer, before, result) ==
    [op |-> op, ptype |-> ptype, arg |-> arg, answer |-> answer,
     before |-> before, result |-> result]

\* the adapter after construction
InitLocal ==
    /\ locModel = ""
    /\ locLog = <<>>

\* load_model called on the adapter
LoadModel(model_name, available) ==
    /\ Len(locLog) < MaxLocalOps
    /\ LET r == LocalLoadModel(locModel, <<model_name>>, available)
       IN /\ locModel' = r.current_model
          /\ locLog' = Append(locLog,
                LogEntry("load_model", "local", model_name,
                         Answer("none", 0, Absent), locModel,
                         [available |-> available, raised |-> r.raised]))
    /\ UNCHANGED <<coreVars, detectVars, thinkVars, lateVars>>

\* load_local_model called on the AsyncLLMClient that owns the adapter
ClientLoadLocalModel(model_name, available) ==
    /\ Len(locLog) < MaxLocalOps
    /\ LET r == LoadLocalModel("local", locModel, model_name, available)
       IN /\ locModel' = r.current_model
          /\ locLog' = Append(locLog,
                LogEntry("load_local_model", "local", model_name,
                         Answer("none", 0, Absent), locModel,
                         [available |-> available, raised |-> r.raised]))
    /\ UNCHANGED <<coreVars, detectVars, thinkVars, lateVars>>

\* chat called on the adapter
LocalChatCall(answer) ==
    /\ Len(locLog) < MaxLocalOps
    /\ locLog' = Append(locLog,
          LogEntry("chat", "local", "", answer, locModel,
                   LocalChat(locModel, CallerMessages, NoOptions, answer)))
    /\ UNCHANGED <<locModel, coreVars, detectVars, thinkVars, lateVars>>

NextLocal ==
    \/ \E m \in ModelNames, available \in BOOLEAN : LoadModel(m, available)
    \/ \E m \in ModelNames, available \in BOOLEAN :
          ClientLoadLocalModel(m, available)
    \/ \E a \in ProviderAnswers : LocalChatCall(a)

\* one chat on a client of some provider type; for the local type the
\* adapter's current_model is part of the input
InitAdapters ==
    /\ locModel \in {""} \cup ModelNames
    /\ locLog = <<>>

AdapterChatCall(ptype, model, format, options, answer) ==
    /\ locLog = <<>>
    /\ locLog' = <<LogEntry("chat", ptype,
                            [model |-> model, format |-> format,
                             options |-> options],
                            answer, locModel,
                            AdapterChat(ptype, locModel, model, CallerMessages,
                                        format, options, answer))>>
    /\ UNCHANGED <<locModel, coreVars, detectVars, thinkVars, lateVars>>

NextAdapters ==
    \E ptype \in ProviderTypes, model \in ModelNames, format \in BOOLEAN,
       options \in CallerOptions, a \in ProviderAnswers :
        AdapterChatCall(ptype, model, format, options, a)

(***************************************************************************)
(* The two-call procedures of the single-file client:                      *)
(* _ollama_thinking_structured_output, _openai_thinking_structured_output  *)
(***************************************************************************)
ThinkOpenTag == ThinkOpen \o <<">">>

\* the two literal turns of the ollama procedure, each held as one item
PlanNote == <<"\n\nI have a plan for how I will tackle this problem.">>
GoAhead ==
    <<"Please go ahead. Answer in JSON format according to the specified schema.">>

ThinkingProcedures == {"ollama", "openai"}

\* the options of the caller, with and without a stop sequence of its own
ThinkingCallerOptions == CallerOptions \cup {Options(TRUE, "0.1", <<"END">>)}

\* thinking_options = (options or {}).copy(); thinking_options["stop"] = ["</think>"]
ThinkingOptions(options) ==
    Options(TRUE, options.temperature, <<ThinkClose>>)

\* the request that self.chat of the single-file client sends
LegacyRequest(ptype, model, messages, format, options) ==
    IF ptype = "ollama"
    THEN Request("ollama.chat", model, messages, "format",
                 IF format THEN "object" ELSE "none", options)
    ELSE Request("chat.completions.create", model, messages,
                 IF format THEN "response_format" ELSE "none",
                 IF format THEN "json_schema" ELSE "none",
                 IF options.given THEN options ELSE NoOptions)

\* response["message"]["content"] of what self.chat returns
LegacyContent(ptype, reply) ==
    IF ptype = "openai" /\ reply.content.t # "str" THEN Str(<<>>)
    ELSE reply.content

\* thinking_content: the tags are added where the content lacks them
ThinkingContent(content) ==
    (IF StartsWithAt(content, 1, ThinkOpenTag) THEN <<>> ELSE ThinkOpenTag)
    \o content
    \o (IF StartsWithAt(content, Len(content) - Len(ThinkClose) + 1, ThinkClose)
        THEN <<>> ELSE ThinkClose)

ThinkingMessages(messages) ==
    Append(messages, [role |-> "assistant", content |-> ThinkOpenTag])

FinalMessages(proc, messages, content) ==
    IF proc = "ollama"
    THEN messages \o << [role |-> "assistant",
                         content |-> ThinkingContent(content) \o PlanNote],
                        [role |-> "user", content |-> GoAhead] >>
    ELSE Append(messages, [role |-> "assistant",
                           content |-> ThinkingContent(content)])

ThinkRun(pc, proc, ptype, model, options, elicit, calls, outcome) ==
    [pc |-> pc, proc |-> proc, ptype |-> ptype, model |-> model,
     options |-> options, elicit |-> elicit, calls |-> calls,
     outcome |-> outcome]

NoThinkRun ==
    ThinkRun("idle", "", "", "", NoOptions, FailedReply, <<>>, NoOutcome)

InitThinking == thRun = NoThinkRun

\* the procedure up to its first await: the elicit call is sent
ThinkingCall(proc, ptype, model, options) ==
    /\ thRun.pc = "idle"
    /\ thRun' = ThinkRun("elicit", proc, ptype, model, options, FailedReply,
                         <<LegacyRequest(ptype, model,
                                         ThinkingMessages(CallerMessages), FALSE,
                                         ThinkingOptions(options))>>,
                         NoOutcome)
    /\ UNCHANGED <<coreVars, detectVars, localVars, lateVars>>

\* the elicit call ends: its error leaves the procedure, its content is
\* wrapped and the answer call is sent
ElicitReturns(reply) ==
    /\ thRun.pc = "elicit"
    /\ LET content == LegacyContent(thRun.ptype, reply)
       IN thRun' =
            IF ~reply.ok
            THEN [thRun EXCEPT !.pc = "done", !.elicit = reply,
                               !.outcome = Raised("ProviderError")]
            ELSE IF content.t # "str"
            THEN [thRun EXCEPT !.pc = "done", !.elicit = reply,
                               !.outcome = Raised("AttributeError")]
            ELSE [thRun EXCEPT
                    !.pc = "answer", !.elicit = reply,
                    !.calls = Append(@,
                        LegacyRequest(thRun.ptype, thRun.model,
                                      FinalMessages(thRun.proc, CallerMessages,
                                                    content.s),
                                      TRUE, thRun.options))]
    /\ UNCHANGED <<coreVars, detectVars, localVars, lateVars>>

\* the answer call ends: its content is returned as ASCII
AnswerReturns(reply) ==
    /\ thRun.pc = "answer"
    /\ LET content == LegacyContent(thRun.ptype, reply)
       IN thRun' =
            [thRun EXCEPT
               !.pc = "done",
               !.outcome =
                   IF ~reply.ok THEN Raised("ProviderError")
                   ELSE IF content.t # "str" THEN Raised("AttributeError")
                   ELSE Returned(Unidecode(ReplaceDashes(content.s)))]
    /\ UNCHANGED <<coreVars, detectVars, localVars, lateVars>>

ElicitReplies ==
    { FailedReply, Reply(TRUE, Null), Reply(TRUE, Str(<<"x">>)),
      Reply(TRUE, Str(ThinkOpenTag \o <<"x">>)),
      Reply(TRUE, Str(<<"x">> \o ThinkClose)) }

AnswerReplies ==
    { FailedReply, Reply(TRUE, Null), Reply(TRUE, Str(ObjA1)),
      Reply(TRUE, Str(ObjectOf(<<EmDash>>))) }

NextThinking ==
    \/ \E proc \in ThinkingProcedures, ptype \in {"ollama", "openai"},
          model \in ModelNames, options \in ThinkingCallerOptions :
          ThinkingCall(proc, ptype, model, options)
    \/ \E reply \in ElicitReplies : ElicitReturns(reply)
    \/ \E reply \in AnswerReplies : AnswerReturns(reply)

(***************************************************************************)
(* detect_behavior_from_raw_response applied to one response               *)
(***************************************************************************)
\* what a reasoning key of the message may hold
FieldValues == { Absent, Null, Num, Str(<<>>), Str(<<" ">>), Str(<<"r">>) }

OpenTag(name) == <<"<">> \o name \o <<">">>
CloseTag(name) == <<"<", "/">> \o name \o <<">">>

\* contents with tags that pair, do not pair, nest, cross or stay open
TaggedContents ==
    { OpenTag(a) \o <<"x">> \o CloseTag(b) : a \in TagNames, b \in TagNames }
    \cup { OpenTag(a) \o <<"x">> : a \in TagNames }
    \cup { OpenTag(Upper(<<"t", "h", "i", "n", "k">>)) \o <<"x">>
             \o CloseTag(<<"t", "h", "i", "n", "k">>),
           <<"<", " ", "t", "h", "i", "n", "k", " ", ">", "x", NL, "y",
             "<", "/", " ", "t", "h", "i", "n", "k", " ", ">">>,
           TagSpan(<<"t", "h", "i", "n", "k">>, <<"x">>)
             \o TagSpan(<<"r", "e", "a", "s", "o", "n", "i", "n", "g">>, <<"y">>),
           OpenTag(<<"t", "h", "i", "n", "k">>)
             \o TagSpan(<<"t", "h", "i", "n", "k", "i", "n", "g">>, <<"x">>)
             \o CloseTag(<<"t", "h", "i", "n", "k">>),
           CloseTag(<<"t", "h", "i", "n", "k">>) \o <<"x">>
             \o OpenTag(<<"t", "h", "i", "n", "k">>),
           OpenTag(<<"t", "h", "i", "n", "k">>) \o <<"x">>
             \o CloseTag(<<"t", "h", "i", "n", "k", "i", "n", "g">>)
             \o OpenTag(<<"t", "h", "i", "n", "k", "i", "n", "g">>) \o <<"y">>
             \o CloseTag(<<"t", "h", "i", "n", "k">>) }

ContentValues ==
    { Absent, Null, Num, Str(<<>>), Str(Hello) }
    \cup { Str(s) : s \in TaggedContents }

DetectBodies ==
    BadBodies
    \cup { MessageBody(Fields(rc, r, th, c)) :
             rc \in FieldValues, r \in FieldValues, th \in FieldValues,
             c \in ContentValues }

NotDetected == Behavior("pending", "", {})

InitDetect ==
    /\ detBody \in DetectBodies
    /\ detOut = NotDetected

IdleDetect ==
    /\ detBody = NoBody
    /\ detOut = NotDetected

\* detect_behavior_from_raw_response(resp_json)
Detect ==
    /\ detOut = NotDetected
    /\ detOut' = DetectBehaviorFromRawResponse(detBody)
    /\ UNCHANGED <<detBody, coreVars, localVars, thinkVars, lateVars>>

(***************************************************************************)
(* A structured request to a model classified field:                       *)
(* chat_with_structured_output, and run_clinical_reasoning over chat       *)
(***************************************************************************)
\* what the provider answers to the request: the message content and the
\* reasoning attribute of the message, "" when it has none
FieldReply(ok, content, reasoning) ==
    [ok |-> ok, content |-> content, reasoning |-> reasoning]

FieldReplies ==
    { FieldReply(FALSE, Null, "") }
    \cup { FieldReply(TRUE, c, r) :
             c \in {Null, Str(ObjA1), Str(<<"x">>), Str(<<"[", "]">>)},
             r \in {"", "r"} }

\* result["message"]["reasoning"] of openai_compatible_chat, lines 146-152;
\* ollama_chat returns the vendor's response, which has no such key
SurfacedReasoning(ptype, reply) ==
    IF ptype = "openai" THEN reply.reasoning ELSE ""

FieldResult(calls, raised, text, object, thinking) ==
    [calls |-> calls, raised |-> raised, text |-> text, object |-> object,
     thinking |-> thinking]

FieldOperations == {"chat_with_structured_output", "run_clinical_reasoning"}

\* what the operation does with a content that is no string:
\* chat_with_structured_output calls None.replace, repair_json(None) fails
\* in its first regular expression
NullContentError(op) ==
    IF op = "chat_with_structured_output" THEN "AttributeError"
    ELSE "TypeError"

\* the text handed to repair_json, empty when the request ends before it:
\* chat_with_structured_output replaces the dashes and transliterates first
\* (client.py:151-155), run_clinical_reasoning passes the raw content
\* (reasoning.py:94-95)
TextToRepair(op, r) ==
    IF r.raised # "" \/ r.content.t # "str" THEN <<>>
    ELSE IF op = "chat_with_structured_output"
    THEN Unidecode(ReplaceDashes(r.content.s))
    ELSE r.content.s

\* the reasoning stored under "thinking": run_clinical_reasoning stores the
\* message's reasoning if there is one (reasoning.py:99-101);
\* chat_with_structured_output returns the repaired text alone
MergedThinking(op, reasoning) ==
    IF op = "run_clinical_reasoning" THEN reasoning ELSE ""

\* the chat of one structured request; LocalLLMClient defines no
\* chat_with_structured_output, so that call raises AttributeError before
\* any request
FieldChat(op, ptype, model, options, reply) ==
    IF op = "chat_with_structured_output" /\ ptype = "local"
    THEN [calls |-> <<>>, raised |-> "AttributeError", content |-> Null]
    ELSE Chat(ptype, model, CallerMessages, TRUE, options, reply)

\* what one structured request returns, from the chat r, the result of
\* repair_json and the json.loads of its text (by run_clinical_reasoning
\* itself, by the caller of chat_with_structured_output); storing a key in
\* a parsed value that is no object raises TypeError
StructuredField(op, r, thinking, repaired, loaded) ==
    IF r.raised # "" THEN FieldResult(r.calls, r.raised, <<>>, <<>>, "")
    ELSE IF r.content.t # "str"
    THEN FieldResult(r.calls, NullContentError(op), <<>>, <<>>, "")
    ELSE IF repaired.raised # ""
    THEN FieldResult(r.calls, repaired.raised, <<>>, <<>>, "")
    ELSE IF ~loaded.ok
    THEN FieldResult(r.calls,
                     IF op = "run_clinical_reasoning"
                     THEN "JSONDecodeError" ELSE "",
                     repaired.out, <<>>, "")
    ELSE IF thinking # "" /\ loaded.value[1].k # "{"
    THEN FieldResult(r.calls, "TypeError", repaired.out, <<>>, "")
    ELSE FieldResult(r.calls, "", repaired.out, loaded.value, thinking)

NoFieldRun ==
    [op |-> "", ptype |-> "", model |-> "", behavior |-> "",
     reply |-> FieldReply(FALSE, Null, ""),
     result |-> FieldResult(<<>>, "", <<>>, <<>>, "")]

InitField == fldRun = NoFieldRun

\* a store in which a probe of the openai provider classified one model field
InitFieldStore ==
    /\ cfg = Config("openai", Url, "llama3", "", FALSE)
    /\ \E m \in ModelNames,
          row \in {ProbeAfterRequest(o).row : o \in ProbeOutcomes} :
          /\ row.capability_type = "field"
          /\ capRows = [k \in Keys |->
                          IF k = <<"openai", m>> THEN row ELSE NoRow]
    /\ tasks = <<>>
    /\ lastProbe = NoProbe
    /\ updates = 0

\* one structured request on the client that get_llm_client builds: each
\* step of the request is computed once, in the order of the code
FieldRequest(op, model, options, reply) ==
    /\ fldRun = NoFieldRun
    /\ \E ptype \in {GetLlmClient(cfg)} :
       \E r \in {FieldChat(op, ptype, model, options, reply)} :
       \E repaired \in {RepairJson(TextToRepair(op, r))} :
       \E loaded \in {JsonLoads(repaired.out)} :
          fldRun' =
            [op |-> op, ptype |-> ptype, model |-> model,
             behavior |-> GetModelThinkingBehavior(cfg, capRows, model),
             reply |-> reply,
             result |-> StructuredField(op, r,
                           MergedThinking(op, SurfacedReasoning(ptype, reply)),
                           repaired, loaded)]
    /\ UNCHANGED fieldFrame

NextField ==
    \E op \in FieldOperations, model \in ModelNames, options \in CallerOptions,
       reply \in FieldReplies :
        FieldRequest(op, model, options, reply)

(***************************************************************************)
(* SummarizationManager                                                    *)
(***************************************************************************)
MaxSumOps == 4    \* should_process and mark_complete calls in one run

Patients == {1, 2}

\* timestamp tokens as generate_token writes them, and two spellings of one
\* time
Tokens == {"1", "2", "2.0", "10"}

\* float(token)
TokenValue(token) ==
    CASE token = "1" -> 1
      [] token = "2" -> 2
      [] token = "2.0" -> 2
      [] token = "10" -> 10

\* the registered token of a patient; "" also before the first call for them
Registered(tokens, patient) ==
    IF patient \in DOMAIN tokens THEN tokens[patient] ELSE ""

\* _ensure_patient_initialized
EnsurePatientInitialized(tokens, patient) ==
    IF patient \in DOMAIN tokens THEN tokens ELSE (patient :> "") @@ tokens

\* a comparison that grants a token equal to the registered one
NewerOrSame(new, current) == TokenValue(new) >= TokenValue(current)

\* new_token > current_token, both read as floats
Newer(new, current) == TokenValue(new) > TokenValue(current)

\* should_process(patient_id, task_token): the body runs under the patient's
\* lock and holds no await, so calls do not interleave inside it
ShouldProcess(tokens, patient, token) ==
    LET ts == EnsurePatientInitialized(tokens, patient)
    IN IF ts[patient] = ""
       THEN [tokens |-> [ts EXCEPT ![patient] = token], result |-> TRUE]
       ELSE IF Newer(token, ts[patient])
       THEN [tokens |-> [ts EXCEPT ![patient] = token], result |-> TRUE]
       ELSE [tokens |-> ts, result |-> FALSE]

\* mark_complete(patient_id)
MarkComplete(tokens, patient) ==
    [EnsurePatientInitialized(tokens, patient) EXCEPT ![patient] = ""]

InitSum ==
    /\ latest_tokens = <<>>
    /\ sumLog = <<>>

ShouldProcessCall(patient, token) ==
    /\ Len(sumLog) < MaxSumOps
    /\ LET r == ShouldProcess(latest_tokens, patient, token)
       IN /\ latest_tokens' = r.tokens
          /\ sumLog' = Append(sumLog,
                [op |-> "should_process", patient |-> patient,
                 token |-> token, result |-> r.result,
                 before |-> latest_tokens, after |-> r.tokens])
    /\ UNCHANGED sumFrame

MarkCompleteCall(patient) ==
    /\ Len(sumLog) < MaxSumOps
    /\ latest_tokens' = MarkComplete(latest_tokens, patient)
    /\ sumLog' = Append(sumLog,
          [op |-> "mark_complete", patient |-> patient, token |-> "",
           result |-> TRUE, before |-> latest_tokens,
           after |-> MarkComplete(latest_tokens, patient)])
    /\ UNCHANGED sumFrame

NextSum ==
    \/ \E patient \in Patients, token \in Tokens :
          ShouldProcessCall(patient, token)
    \/ \E patient \in Patients : MarkCompleteCall(patient)

(***************************************************************************)
(* create_backup and _rotate_backups                                       *)
(***************************************************************************)
MAX_BACKUPS == 3

MaxClock == 4    \* seconds of wall-clock time in one run

\* one file of the backups directory: its name carries the second it was
\* made in, the only part of the name that varies
BackupFile(name, mtime) == [name |-> name, mtime |-> mtime]

\* writing a path replaces the file already at that path
WriteFile(files, f) == {g \in files : g.name # f.name} \cup {f}

\* what the copy can do: "ok"; "denied", when mkdir or the opening of the
\* target fails; "partial", when the copy fails after it created the target
CopyOutcomes == {"ok", "denied", "partial"}

\* shutil.copy2 keeps the modification time of the database file; a copy
\* that failed half-way leaves a file with the time of the write
Copied(db, files, now, copy) ==
    CASE copy = "ok" -> WriteFile(files, BackupFile(now, db.mtime))
      [] copy = "partial" -> WriteFile(files, BackupFile(now, now))
      [] copy = "denied" -> files

\* a choice of files beyond the limit that ignores their modification times
OldBackupsAnyOrder(files, old) ==
    /\ old \subseteq files
    /\ Cardinality(old) =
         IF Cardinality(files) > MAX_BACKUPS
         THEN Cardinality(files) - MAX_BACKUPS ELSE 0

\* backups[MAX_BACKUPS:] of the files sorted by st_mtime, newest first; the
\* order among files of equal time is the order glob lists them in
OldBackups(files, old) ==
    /\ old \subseteq files
    /\ Cardinality(old) =
         IF Cardinality(files) > MAX_BACKUPS
         THEN Cardinality(files) - MAX_BACKUPS ELSE 0
    /\ \A f \in files \ old, g \in old : f.mtime >= g.mtime

\* what the rotation can do: "ok"; "scan_fails", when glob or stat raises;
\* "unlink_fails", when an unlink raises, which ends the loop
RotationOutcomes == {"ok", "scan_fails", "unlink_fails"}

\* the files the loop removed: all of old, or the newest of them up to the
\* unlink that raised
Unlinked(old, rot, removed) ==
    CASE rot = "ok" -> removed = old
      [] rot = "scan_fails" -> removed = {}
      [] rot = "unlink_fails" ->
            /\ removed \subseteq old /\ removed # old
            /\ \A f \in removed, g \in old \ removed : f.mtime >= g.mtime

NoBackupCall ==
    [called |-> FALSE, returned |-> "", raised |-> FALSE, copy |-> "",
     rot |-> "", written |-> {}, removed |-> {}, db |-> FALSE]

InitBackup ==
    /\ bakDb = [exists |-> FALSE, mtime |-> 0]
    /\ bakFiles = {}
    /\ bakNow = 1
    /\ bakLast = NoBackupCall

\* create_backup(db_path, db_dir): every exception of the copy and of the
\* rotation is caught and logged
CreateBackup(copy, rot, old, removed) ==
    /\ IF ~bakDb.exists
       THEN /\ copy = "ok" /\ rot = "ok" /\ old = {} /\ removed = {}
            /\ UNCHANGED bakFiles
       ELSE IF copy # "ok"
       THEN /\ rot = "ok" /\ old = {} /\ removed = {}
            /\ bakFiles' = Copied(bakDb, bakFiles, bakNow, copy)
       ELSE /\ OldBackups(Copied(bakDb, bakFiles, bakNow, copy), old)
            /\ Unlinked(old, rot, removed)
            /\ bakFiles' = Copied(bakDb, bakFiles, bakNow, copy) \ removed
    /\ bakLast' =
         [called |-> TRUE,
          returned |-> IF bakDb.exists /\ copy = "ok" THEN "path" ELSE "None",
          raised |-> FALSE, copy |-> copy, rot |-> rot,
          written |-> IF bakDb.exists
                      THEN Copied(bakDb, bakFiles, bakNow, copy) \ bakFiles
                      ELSE {},
          removed |-> removed, db |-> bakDb.exists]
    /\ UNCHANGED <<bakDb, bakNow>>
    /\ UNCHANGED bakFrame

\* the application creates or writes the database file
DatabaseWritten ==
    /\ bakDb # [exists |-> TRUE, mtime |-> bakNow]
    /\ bakDb' = [exists |-> TRUE, mtime |-> bakNow]
    /\ UNCHANGED <<bakFiles, bakNow, bakLast>>
    /\ UNCHANGED bakFrame

\* a second passes
ClockTick ==
    /\ bakNow < MaxClock
    /\ bakNow' = bakNow + 1
    /\ UNCHANGED <<bakDb, bakFiles, bakLast>>
    /\ UNCHANGED bakFrame

NextBackup ==
    \/ \E copy \in CopyOutcomes \ {"ok"} : CreateBackup(copy, "ok", {}, {})
    \/ \E old \in SUBSET Copied(bakDb, bakFiles, bakNow, "ok") :
          /\ bakDb.exists => OldBackups(Copied(bakDb, bakFiles, bakNow, "ok"), old)
          /\ \E rot \in RotationOutcomes, removed \in SUBSET old :
                CreateBackup("ok", rot, old, removed)
    \/ DatabaseWritten
    \/ ClockTick

(***************************************************************************)
(* initialize_database, get_db                                             *)
(***************************************************************************)
MaxThreads == 2    \* threads that call into the connection module

Passphrases == {"", "a", "b"}

\* _db_instance = None
NoInstance == [id |-> 0, passphrase |-> ""]

NoGet == [called |-> FALSE, raised |-> FALSE, instance |-> NoInstance,
          built |-> 0]

IdleThread == [pc |-> "idle", passphrase |-> "", returned |-> NoInstance,
               raised |-> FALSE, got |-> NoGet]

InitDb ==
    /\ db_instance = NoInstance
    /\ db_lock = 0
    /\ dbThreads = [th \in 1..MaxThreads |-> IdleThread]
    /\ dbBuilt = 0

\* a lock that never makes a thread wait
LockIgnored(lock) == TRUE

\* with _db_lock: the lock is taken only while no thread holds it
LockFree(lock) == lock = 0

\* get_db(): the instance, or RuntimeError while there is none
GetDb(instance) ==
    [called |-> TRUE, raised |-> instance = NoInstance,
     instance |-> instance, built |-> dbBuilt]

\* a thread calls initialize_database(passphrase) and reaches the lock
InitializeDatabase(th, passphrase) ==
    /\ dbThreads[th].pc = "idle"
    /\ dbThreads' = [dbThreads EXCEPT ![th].pc = "waiting",
                                      ![th].passphrase = passphrase]
    /\ UNCHANGED <<db_instance, db_lock, dbBuilt>>
    /\ UNCHANGED dbFrame

\* it takes the lock and tests _db_instance
AcquireLock(th) ==
    /\ dbThreads[th].pc = "waiting"
    /\ LockFree(db_lock)
    /\ db_lock' = th
    /\ dbThreads' = [dbThreads EXCEPT ![th].pc =
                        IF db_instance # NoInstance THEN "returning"
                        ELSE "constructing"]
    /\ UNCHANGED <<db_instance, dbBuilt>>
    /\ UNCHANGED dbFrame

\* PatientDatabase(passphrase, db_dir) returns and is assigned, or raises
\* (no key, a wrong key, a failing migration), which leaves the with block
Construct(th, ok) ==
    /\ dbThreads[th].pc = "constructing"
    /\ IF ok
       THEN /\ dbBuilt' = dbBuilt + 1
            /\ db_instance' = [id |-> dbBuilt + 1,
                               passphrase |-> dbThreads[th].passphrase]
            /\ dbThreads' = [dbThreads EXCEPT ![th].pc = "returning"]
            /\ UNCHANGED db_lock
       ELSE /\ dbThreads' = [dbThreads EXCEPT ![th].pc = "done",
                                              ![th].raised = TRUE]
            /\ db_lock' = IF db_lock = th THEN 0 ELSE db_lock
            /\ UNCHANGED <<db_instance, dbBuilt>>
    /\ UNCHANGED dbFrame

\* return _db_instance, which leaves the with block
ReturnInstance(th) ==
    /\ dbThreads[th].pc = "returning"
    /\ dbThreads' = [dbThreads EXCEPT ![th].pc = "done",
                                      ![th].returned = db_instance]
    /\ db_lock' = IF db_lock = th THEN 0 ELSE db_lock
    /\ UNCHANGED <<db_instance, dbBuilt>>
    /\ UNCHANGED dbFrame

\* a thread outside initialize_database calls get_db()
GetDbCall(th) ==
    /\ dbThreads[th].pc \in {"idle", "done"}
    /\ dbThreads[th].got # GetDb(db_instance)
    /\ dbThreads' = [dbThreads EXCEPT ![th].got = GetDb(db_instance)]
    /\ UNCHANGED <<db_instance, db_lock, dbBuilt>>
    /\ UNCHANGED dbFrame

NextDb ==
    \/ \E th \in 1..MaxThreads, passphrase \in Passphrases :
          InitializeDatabase(th, passphrase)
    \/ \E th \in 1..MaxThreads : AcquireLock(th)
    \/ \E th \in 1..MaxThreads, ok \in BOOLEAN : Construct(th, ok)
    \/ \E th \in 1..MaxThreads : ReturnInstance(th)
    \/ \E th \in 1..MaxThreads : GetDbCall(th)

(***************************************************************************)
(* ChatEngine.stream_chat                                                  *)
(***************************************************************************)
MaxEngChunks == 2    \* chunks one stream_llm_response yields

\* streaming/response.py: start_message, status_message, the chunks of
\* stream_llm_response, end_message
EngineEvent(type, function_response) ==
    [type |-> type, function_response |-> function_response]

\* what the tool-selection chat can do: raise, answer without a tool call,
\* or name a tool
Selections == {"raises", "none", "direct_response", "get_relevant_literature"}

IdleEngine ==
    [pc |-> "idle", tool |-> "", events |-> <<>>,
     function_response |-> "unbound", chunks |-> 0, error |-> ""]

InitEngine == engRun = IdleEngine

\* the except branch of get_streaming_response: an error status, then the
\* fallback stream
Fallback(run) ==
    [run EXCEPT !.pc = "fallback", !.chunks = 0,
                !.events = Append(@, EngineEvent("status", "None"))]

\* yield end_message(function_response=function_response): the local is
\* read, and it is bound only once the selection chat has returned
Finish(run) ==
    IF run.function_response = "unbound"
    THEN [run EXCEPT !.pc = "raised", !.error = "UnboundLocalError"]
    ELSE [run EXCEPT !.pc = "done",
                     !.events = Append(@, EngineEvent("end", run.function_response))]

\* stream_chat yields start_message() and enters get_streaming_response
StreamChat ==
    /\ engRun.pc = "idle"
    /\ engRun' = [engRun EXCEPT !.pc = "selecting",
                                !.events = <<EngineEvent("start", "None")>>]
    /\ UNCHANGED engFrame

\* the initial chat with the tool definitions
ToolSelection(selection) ==
    /\ engRun.pc = "selecting"
    /\ engRun' =
         CASE selection = "raises" -> Fallback(engRun)
           [] selection = "none" ->
                [engRun EXCEPT !.pc = "direct", !.function_response = "None",
                               !.events = Append(@, EngineEvent("status", "None"))]
           [] OTHER ->
                [engRun EXCEPT !.pc = "tool", !.tool = selection,
                               !.function_response = "None"]
    /\ UNCHANGED engFrame

\* a tool yields a status message: direct_response one, the literature
\* search one before its query and one after it
ToolStatus ==
    /\ engRun.pc \in {"tool", "tool_searched"}
    /\ engRun' =
         [engRun EXCEPT
            !.pc = IF engRun.tool = "get_relevant_literature"
                      /\ engRun.pc = "tool"
                   THEN "tool_searched" ELSE "tool_stream",
            !.events = Append(@, EngineEvent("status", "None"))]
    /\ UNCHANGED engFrame

\* a stream_llm_response yields a chunk
ResponseChunk ==
    /\ engRun.pc \in {"direct", "tool_stream", "fallback"}
    /\ engRun.chunks < MaxEngChunks
    /\ engRun' = [engRun EXCEPT !.chunks = @ + 1,
                                !.events = Append(@, EngineEvent("chunk", "None"))]
    /\ UNCHANGED engFrame

\* a stream ends: the literature search then yields its own end message,
\* which the engine consumes for its function_response
ResponseEnds(found) ==
    /\ engRun.pc \in {"direct", "tool_stream", "fallback"}
    /\ engRun' =
         IF engRun.pc = "tool_stream" /\ engRun.tool = "get_relevant_literature"
         THEN Finish([engRun EXCEPT !.function_response =
                                      IF found THEN "list" ELSE "None"])
         ELSE Finish(engRun)
    /\ UNCHANGED engFrame

\* an exception inside the try block goes to the fallback; one of the
\* fallback stream leaves the generator, and stream_chat re-raises it
Raises ==
    /\ engRun.pc \in {"direct", "tool", "tool_searched", "tool_stream",
                      "fallback"}
    /\ engRun' = IF engRun.pc = "fallback"
                 THEN [engRun EXCEPT !.pc = "raised", !.error = "Exception"]
                 ELSE Fallback(engRun)
    /\ UNCHANGED engFrame

NextEngine ==
    \/ StreamChat
    \/ \E selection \in Selections : ToolSelection(selection)
    \/ ToolStatus
    \/ ResponseChunk
    \/ \E found \in BOOLEAN : ResponseEnds(found)
    \/ Raises

(***************************************************************************)
(* run_migrations                                                          *)
(***************************************************************************)
SCHEMA_VERSION == 4

MaxMigCalls == 2    \* run_migrations calls in one run

\* the migrate_to_v<n> functions the module defines
MigrationFunctions == 1..4

\* SELECT MAX(version), 0 for an empty table
CurrentVersion(table) ==
    IF table = {} THEN 0
    ELSE CHOOSE v \in table : \A w \in table : w <= v

\* a loop that starts at the version the table already records
FirstMigrationAgain(current) == current

\* range(current_version + 1, SCHEMA_VERSION + 1)
FirstMigration(current) == current + 1

NoMigrationRun ==
    [pc |-> "idle", before |-> {}, next |-> 0, ran |-> <<>>, calls |-> <<>>]

\* no call yet, on a database that has no schema_version table
IdleMigrations ==
    /\ schema_version = {}
    /\ migRun = NoMigrationRun
    /\ migCalls = 0

\* a new database, or one that a release with an earlier SCHEMA_VERSION
\* left with its one row
InitMigrations ==
    /\ schema_version \in {{}} \cup {{v} : v \in 1..SCHEMA_VERSION}
    /\ migRun = NoMigrationRun
    /\ migCalls = 0

\* what a call that has ended leaves in the record of calls
Ended(run, outcome, table) ==
    [run EXCEPT !.pc = outcome,
                !.calls = Append(@, [before |-> run.before, ran |-> run.ran,
                                     outcome |-> outcome, after |-> table])]

\* run_migrations reads the current version; at SCHEMA_VERSION or above it
\* has nothing to do
RunMigrations ==
    /\ migRun.pc \in {"idle", "returned", "raised"}
    /\ migCalls < MaxMigCalls
    /\ migCalls' = migCalls + 1
    /\ LET run == [migRun EXCEPT
                      !.before = schema_version, !.ran = <<>>,
                      !.next = FirstMigration(CurrentVersion(schema_version))]
       IN migRun' = IF CurrentVersion(schema_version) < SCHEMA_VERSION
                    THEN [run EXCEPT !.pc = "migrating"]
                    ELSE Ended(run, "returned", schema_version)
    /\ UNCHANGED schema_version
    /\ UNCHANGED migFrame

\* one turn of the loop: the function is looked up and called; a missing
\* function or a raising one ends the call in the except branch, whose
\* rollback leaves the table as it was
Migrate(ok) ==
    /\ migRun.pc = "migrating"
    /\ migRun.next <= SCHEMA_VERSION
    /\ migRun' =
         IF migRun.next \notin MigrationFunctions
         THEN Ended(migRun, "raised", schema_version)
         ELSE IF ok
         THEN [migRun EXCEPT !.ran = Append(@, migRun.next), !.next = @ + 1]
         ELSE Ended([migRun EXCEPT !.ran = Append(@, migRun.next)],
                    "raised", schema_version)
    /\ UNCHANGED <<schema_version, migCalls>>
    /\ UNCHANGED migFrame

\* after the loop: DELETE, INSERT SCHEMA_VERSION and commit, or a failure
\* of one of them and the rollback
UpdateSchemaVersion(ok) ==
    /\ migRun.pc = "migrating"
    /\ migRun.next > SCHEMA_VERSION
    /\ schema_version' = IF ok THEN {SCHEMA_VERSION} ELSE schema_version
    /\ migRun' = IF ok THEN Ended(migRun, "returned", {SCHEMA_VERSION})
                 ELSE Ended(migRun, "raised", schema_version)
    /\ UNCHANGED migCalls
    /\ UNCHANGED migFrame

NextMigrations ==
    \/ RunMigrations
    \/ \E ok \in BOOLEAN : Migrate(ok)
    \/ \E ok \in BOOLEAN : UpdateSchemaVersion(ok)

(***************************************************************************)
(* The caller's objects under the client operations: which lists and dicts *)
(* an operation copies, and which it changes                               *)
(***************************************************************************)
MaxRuns == 2    \* operations running concurrently on the same objects

\* a local variable holds a reference to one of the caller's objects, or an
\* object of its own
Alias(name) == [ref |-> "caller", val |-> name]
Own(v) == [ref |-> "own", val |-> v]

Deref(objs, l) == IF l.ref = "caller" THEN objs[l.val] ELSE l.val

\* an assignment that shares the object instead of copying it
ListAlias(objs, l) == l

\* list.copy() and dict.copy(): a new object with the same items
ListCopy(objs, l) == Own(Deref(objs, l))

\* list.append, dict item assignment: the object the variable refers to is
\* changed in place
Store(objs, l, v) ==
    IF l.ref = "caller"
    THEN [objs |-> [objs EXCEPT ![l.val] = v], local |-> l]
    ELSE [objs |-> objs, local |-> Own(v)]

ClientOperations ==
    {"chat", "stream_chat", "chat_with_structured_output",
     "_ollama_thinking_structured_output",
     "_openai_thinking_structured_output"}

IsThinkingOperation(op) ==
    op \in {"_ollama_thinking_structured_output",
            "_openai_thinking_structured_output"}

ProcedureOf(op) ==
    IF op = "_ollama_thinking_structured_output" THEN "ollama" ELSE "openai"

InitialObjects ==
    [messages |-> CallerMessages, options |-> Options(TRUE, "0.1", <<"END">>),
     schema |-> "schema"]

NoRun == [op |-> "", ptype |-> "", pc |-> "idle", requests |-> <<>>]

InitObjects ==
    /\ callerObjs = InitialObjects
    /\ opRuns = [r \in 1..MaxRuns |-> NoRun]

\* llm_client.py:443-453 and 500-510: thinking_messages = messages.copy()
\* with the <think> turn appended, thinking_options = (options or {}).copy()
\* with stop set
ElicitStep(objs, ptype, model) ==
    LET m == Store(objs, ListCopy(objs, Alias("messages")),
                   Append(objs.messages,
                          [role |-> "assistant", content |-> ThinkOpenTag]))
        o == Store(m.objs, ListCopy(m.objs, Alias("options")),
                   ThinkingOptions(m.objs.options))
    IN [objs |-> o.objs,
        request |-> LegacyRequest(ptype, model, Deref(o.objs, m.local), FALSE,
                                  Deref(o.objs, o.local))]

\* llm_client.py:462-479 and 518-526: final_messages = messages.copy() with
\* the assistant turn (and the user turn) appended; options is the caller's
AnswerStep(objs, proc, ptype, model, content) ==
    LET copy == ListCopy(objs, Alias("messages"))
        m == Store(objs, copy,
                   FinalMessages(proc, Deref(objs, copy), content))
    IN [objs |-> m.objs,
        request |-> LegacyRequest(ptype, model, Deref(m.objs, m.local), TRUE,
                                  m.objs.options)]

\* client.py:122-190: chat and chat_with_structured_output hand the
\* caller's objects to the adapter, which builds its own parameters
ChatStep(objs, op, ptype, model) ==
    [objs |-> objs,
     request |-> Chat(ptype, model, objs.messages,
                      op = "chat_with_structured_output", objs.options,
                      Reply(TRUE, Null)).calls[1]]

\* an operation runs up to its first await
OperationStart(r, op, ptype) ==
    /\ opRuns[r].pc = "idle"
    /\ LET s == IF IsThinkingOperation(op)
                THEN ElicitStep(callerObjs, ptype, "llama3")
                ELSE ChatStep(callerObjs, op, ptype, "llama3")
       IN /\ callerObjs' = s.objs
          /\ opRuns' = [opRuns EXCEPT ![r] =
                [op |-> op, ptype |-> ptype,
                 pc |-> IF IsThinkingOperation(op) THEN "elicit" ELSE "chat",
                 requests |-> <<s.request>>]]
    /\ UNCHANGED objFrame

\* the request it awaits ends, and it runs to its next await or to its end
OperationResume(r, reply) ==
    /\ opRuns[r].pc \in {"elicit", "chat", "answer"}
    /\ IF opRuns[r].pc = "elicit" /\ reply.ok /\ reply.content.t = "str"
       THEN LET s == AnswerStep(callerObjs, ProcedureOf(opRuns[r].op),
                                opRuns[r].ptype, "llama3", reply.content.s)
            IN /\ callerObjs' = s.objs
               /\ opRuns' = [opRuns EXCEPT
                     ![r].pc = "answer",
                     ![r].requests = Append(@, s.request)]
       ELSE /\ opRuns' = [opRuns EXCEPT ![r].pc = "done"]
            /\ UNCHANGED callerObjs
    /\ UNCHANGED objFrame

NextObjects ==
    \/ \E r \in 1..MaxRuns, op \in ClientOperations,
          ptype \in {"ollama", "openai"} : OperationStart(r, op, ptype)
    \/ \E r \in 1..MaxRuns, reply \in {FailedReply, Reply(TRUE, Str(<<"x">>))} :
          OperationResume(r, reply)

(***************************************************************************)
(* Specifications                                                          *)
(***************************************************************************)
IdleLateButMigrations ==
    /\ InitField /\ InitSum /\ InitBackup /\ InitDb /\ InitEngine
    /\ InitObjects /\ InitLookup

IdleLate == IdleLateButMigrations /\ IdleMigrations

IdleRepair ==
    /\ rjParts = Parts(<<>>, <<>>, <<>>)
    /\ rjIn = <<>>
    /\ rjOut = NoOutcome
    /\ rjPass = ""
    /\ rjPc = "idle"

IdleProbe ==
    /\ cfg = DefaultConfig
    /\ capRows = [k \in Keys |-> NoRow]
    /\ tasks = <<>>
    /\ lastProbe = NoProbe
    /\ updates = 0

IdleStream ==
    /\ stChunks = <<>>
    /\ stPos = 0
    /\ reasoning_started = FALSE
    /\ stEvents = <<>>
    /\ stDone = TRUE

IdleCore == IdleRepair /\ IdleProbe /\ InitChat /\ IdleStream

IdleRest == IdleDetect /\ InitLocal /\ InitThinking /\ IdleLate

\* the JSON repair pipeline applied to one text
RepairInit == InitRepair /\ IdleProbe /\ InitChat /\ IdleStream /\ IdleRest

SpecRepair ==
    /\ RepairInit
    /\ [][NextRepair]_vars

\* the stream normalizer applied to one vendor stream
StreamInit == IdleRepair /\ IdleProbe /\ InitChat /\ InitStream /\ IdleRest

SpecStream ==
    /\ StreamInit
    /\ [][NextStream]_vars

\* the probe answers behind the stored rows: the well-formed bodies and one
\* failure
StoredOutcomes ==
    { o \in ProbeOutcomes :
        \/ o.net = "response" /\ o.status = 200 /\ o.body \in GoodBodies
        \/ o.net = "timeout" }

\* the rows a probe can have stored for the configured provider
RowsStorable(c) ==
    {NoRow, ProbeWithoutRequest.row}
    \cup (IF ProbeSkipsRequest(LowerName(c.LLM_PROVIDER), c.LLM_BASE_URL)
          THEN {}
          ELSE {ProbeAfterRequest(o).row : o \in StoredOutcomes})

\* the provider settings, with no secondary model and reasoning disabled
ClientConfigs ==
    { c \in Configs : c.SECONDARY_MODEL = "" /\ ~c.REASONING_ENABLED }

\* a client of any provider type, over a store that earlier probes filled
InitClient ==
    /\ cfg \in ClientConfigs
    /\ \E m \in ModelNames, r \in RowsStorable(cfg) :
          capRows = [k \in Keys |->
                       IF k = <<LowerName(cfg.LLM_PROVIDER), m>> THEN r
                       ELSE NoRow]
    /\ tasks = <<>>
    /\ lastProbe = NoProbe
    /\ updates = 0

\* one call on a fresh client
NextClient ==
    /\ chatCount = 0
    /\ \E ptype \in ProviderTypes, model \in ModelNames,
          options \in CallerOptions, reply \in Replies :
           StructuredChat(ptype, model, options, reply)

ClientInit == IdleRepair /\ InitClient /\ InitChat /\ IdleStream /\ IdleRest

SpecClient ==
    /\ ClientInit
    /\ [][NextClient]_vars

\* the models the configuration names
ConfiguredModels(c) ==
    {c.PRIMARY_MODEL, c.SECONDARY_MODEL, c.REASONING_MODEL} \ {""}

\* a caller builds its client with get_llm_client and calls it
ChatFromConfig ==
    /\ GetLlmClient(cfg) # "error"
    /\ \E model \in ConfiguredModels(cfg) :
          StructuredChat(GetLlmClient(cfg), model, NoOptions,
                         Reply(TRUE, Str(ObjA1)))

\* consecutive chats of the configured client over a filled store
SpecChats ==
    /\ ClientInit
    /\ [][ChatFromConfig]_vars

Init == IdleRepair /\ InitProbe /\ InitChat /\ IdleStream /\ IdleRest

Next ==
    \/ \E data \in Configs : UpdateConfig(data)
    \/ ProbeStart
    \/ \E i \in 1..Len(tasks), o \in ProbeOutcomes : ProbeFinish(i, o)

\* configuration updates and the probes they schedule
Spec == Init /\ [][Next]_vars

DetectInit == IdleCore /\ InitDetect /\ InitLocal /\ InitThinking /\ IdleLate

\* detect_behavior_from_raw_response applied to one response body
SpecDetect == DetectInit /\ [][Detect]_vars

LocalInit == IdleCore /\ IdleDetect /\ InitLocal /\ InitThinking /\ IdleLate

\* load_model and chat operations on one local adapter
SpecLocal == LocalInit /\ [][NextLocal]_vars

AdaptersInit == IdleCore /\ IdleDetect /\ InitAdapters /\ InitThinking /\ IdleLate

\* AsyncLLMClient.chat applied once to a client of some provider type
SpecAdapters == AdaptersInit /\ [][NextAdapters]_vars

ThinkingInit == IdleCore /\ IdleDetect /\ InitLocal /\ InitThinking /\ IdleLate

\* one run of a two-call thinking procedure
SpecThinking == ThinkingInit /\ [][NextThinking]_vars

FieldInit ==
    /\ IdleRepair /\ InitFieldStore /\ InitChat /\ IdleStream
    /\ IdleDetect /\ InitLocal /\ InitThinking /\ IdleLate

\* one structured request to a model that a probe classified field
SpecField == FieldInit /\ [][NextField]_vars

(***************************************************************************)
(* Properties of the structured request to a field model                   *)
(***************************************************************************)
FieldDone == fldRun # NoFieldRun

\* C21: for a model classified field, a structured request issues exactly
\* one provider call with the schema attached; when the response carries a
\* non-empty reasoning value and the request returns, the parsed object
\* holds that value under thinking, and with no reasoning value the object
\* is the one the model produced
C21_ReasoningMergedUnderThinking ==
    (FieldDone /\ fldRun.behavior = "field") =>
        /\ Len(fldRun.result.calls) = 1
        /\ fldRun.result.calls[1].schemaShape # "none"
        /\ fldRun.result.raised = "" =>
              /\ fldRun.result.thinking = fldRun.reply.reasoning
              /\ fldRun.result.object = JsonLoads(fldRun.result.text).value

IdleEarly == IdleCore /\ IdleDetect /\ InitLocal /\ InitThinking

ObjectsInit == IdleEarly /\ IdleLate

\* concurrent client operations on one set of caller objects
SpecObjects == ObjectsInit /\ [][NextObjects]_vars

LookupInit == IdleRepair /\ InitClient /\ InitChat /\ IdleStream /\ IdleRest

\* lookups of the classification over a store that earlier probes filled
SpecLookup == LookupInit /\ [][NextLookup]_vars

(***************************************************************************)
(* Properties of get_model_thinking_behavior (SpecLookup)                  *)
(***************************************************************************)
\* C24: the lookup returns the stored classification when a row exists for
\* (configured provider, model), any type other than tags or field read as
\* none, and only without a row the name heuristic: tags for a name of a
\* known reasoning family, none otherwise
C24_StoredRowElseNameHeuristic ==
    \A i \in 1..Len(lookLog) :
        LET e == lookLog[i]
            rec == IF e.model = "" THEN NoRow
                   ELSE capRows[<<LowerName(cfg.LLM_PROVIDER), e.model>>]
        IN e.result = IF rec # NoRow
                      THEN IF rec.capability_type \in {"tags", "field"}
                           THEN rec.capability_type ELSE "none"
                      ELSE FallbackBehaviorFromName(e.model)

SumInit == IdleEarly /\ IdleLate

\* any order of should_process and mark_complete calls on one manager
SpecSum == SumInit /\ [][NextSum]_vars

(***************************************************************************)
(* Properties of SummarizationManager (SpecSum)                            *)
(***************************************************************************)
\* the should_process calls made so far for a patient
TasksOf(patient) ==
    { i \in 1..Len(sumLog) : /\ sumLog[i].op = "should_process"
                             /\ sumLog[i].patient = patient }

\* the tasks of a patient were submitted in quick succession: each called
\* should_process once with a timestamp of its own, and no mark_complete
\* ran for the patient
QuickSuccession(patient) ==
    /\ \A i \in 1..Len(sumLog) :
          sumLog[i].patient = patient => sumLog[i].op = "should_process"
    /\ \A i, j \in TasksOf(patient) :
          i # j => TokenValue(sumLog[i].token) # TokenValue(sumLog[j].token)

\* C25: of several tasks for one patient submitted in quick succession,
\* in whatever order they call, only the one with the newest token is
\* granted True and every older one is refused
C25_OnlyNewestGranted ==
    \A patient \in Patients :
        QuickSuccession(patient) =>
            \A i \in TasksOf(patient) :
                sumLog[i].result =
                    (\A j \in TasksOf(patient) :
                        TokenValue(sumLog[j].token)
                            <= TokenValue(sumLog[i].token))

\* the value of a registered token, the empty one below every timestamp
RegisteredValue(tokens, patient) ==
    IF Registered(tokens, patient) = "" THEN 0
    ELSE TokenValue(Registered(tokens, patient))

\* C29: per patient the registered token never decreases except by
\* mark_complete; should_process returns False exactly when the offered
\* token is not strictly greater than the registered one; mark_complete
\* leaves the token empty, so the patient's next should_process returns True
\* for any token; a call for one patient leaves the others' tokens alone
C29_TokenMonotoneBetweenCompletions ==
    \A i \in 1..Len(sumLog) :
        LET e == sumLog[i]
        IN /\ e.op = "should_process" =>
                /\ RegisteredValue(e.after, e.patient)
                      >= RegisteredValue(e.before, e.patient)
                /\ e.result = (TokenValue(e.token)
                                 > RegisteredValue(e.before, e.patient))
           /\ e.op = "mark_complete" =>
                /\ Registered(e.after, e.patient) = ""
                /\ \A j \in (i + 1)..Len(sumLog) :
                      (/\ sumLog[j].patient = e.patient
                       /\ sumLog[j].op = "should_process"
                       /\ \A k \in (i + 1)..(j - 1) :
                             sumLog[k].patient # e.patient)
                      => sumLog[j].result
           /\ \A q \in Patients \ {e.patient} :
                Registered(e.after, q) = Registered(e.before, q)

\* a token equal as a float to the registered one was refused, and after
\* mark_complete an older token than one granted before was granted
C29_RefusedThenOlderGrantedAfterComplete ==
    \E i, j, k, l \in 1..Len(sumLog) :
        /\ i < j /\ j < k /\ k < l
        /\ \A n \in {i, j, k, l} : sumLog[n].patient = 1
        /\ sumLog[i].op = "should_process" /\ sumLog[i].result
        /\ sumLog[j].op = "should_process" /\ ~sumLog[j].result
        /\ sumLog[j].token # sumLog[i].token
        /\ TokenValue(sumLog[j].token) = TokenValue(sumLog[i].token)
        /\ sumLog[k].op = "mark_complete"
        /\ sumLog[l].op = "should_process" /\ sumLog[l].result
        /\ TokenValue(sumLog[l].token) < TokenValue(sumLog[i].token)

BackupInit == IdleEarly /\ IdleLate

\* create_backup calls as the database is written and time passes
SpecBackup == BackupInit /\ [][NextBackup]_vars

(***************************************************************************)
(* Properties of create_backup (SpecBackup)                                *)
(***************************************************************************)
\* the files kept are the most recently modified: none is older than a file
\* the call removed
KeptAreNewest ==
    \A f \in bakFiles, g \in bakLast.removed : f.mtime >= g.mtime

\* nothing is created without a database file, and the call does not raise
QuietWithoutDatabase ==
    /\ ~bakLast.raised
    /\ ~bakLast.db => bakLast.written = {} /\ bakLast.returned = "None"

DbInit == IdleEarly /\ IdleLate

\* threads calling initialize_database and get_db
SpecDb == DbInit /\ [][NextDb]_vars

(***************************************************************************)
(* Properties of initialize_database and get_db (SpecDb)                   *)
(***************************************************************************)
\* C27: however concurrent initialize_database calls interleave, at most
\* one PatientDatabase is constructed and registered, and every call that
\* returns, returns that instance, whatever passphrase it passed; get_db
\* raises exactly while no initialization has succeeded; a call whose
\* construction raised registered nothing
C27_OneInstanceForAllCallers ==
    /\ dbBuilt <= 1
    /\ db_instance.id = dbBuilt
    /\ \A th \in 1..MaxThreads :
          LET d == dbThreads[th]
          IN /\ d.returned # NoInstance => d.returned = db_instance
             /\ (d.pc = "done" /\ ~d.raised) => d.returned # NoInstance
             /\ d.got.called =>
                   /\ d.got.raised = (d.got.built = 0)
                   /\ ~d.got.raised => d.got.instance = db_instance
             /\ (d.raised /\ \A o \in 1..MaxThreads :
                               dbThreads[o].pc \in {"idle", "waiting"}
                               \/ dbThreads[o].raised)
                   => db_instance = NoInstance

\* a call whose construction raised, then a call with another passphrase
\* that constructed the instance, with get_db raising before and returning
\* the instance after
C27_InitializedAfterFailure ==
    \E th, o \in 1..MaxThreads :
        /\ dbThreads[th].raised /\ dbThreads[th].pc = "done"
        /\ dbThreads[th].got.called /\ dbThreads[th].got.raised
        /\ dbThreads[o].pc = "done" /\ dbThreads[o].returned = db_instance
        /\ dbThreads[o].passphrase # dbThreads[th].passphrase
        /\ dbThreads[o].got.called /\ ~dbThreads[o].got.raised
        /\ db_instance # NoInstance

\* two calls with different passphrases that overlapped and both returned
\* the one instance
C27_TwoCallersOneInstance ==
    /\ \A th \in 1..MaxThreads :
          dbThreads[th].pc = "done" /\ dbThreads[th].returned = db_instance
    /\ db_instance # NoInstance
    /\ \E th \in 1..MaxThreads :
          dbThreads[th].passphrase # db_instance.passphrase

EngineInit == IdleEarly /\ IdleLate

\* one stream_chat call
SpecEngine == EngineInit /\ [][NextEngine]_vars

(***************************************************************************)
(* Properties of ChatEngine.stream_chat (SpecEngine)                       *)
(***************************************************************************)
EventsOfType(type) ==
    { i \in 1..Len(engRun.events) : engRun.events[i].type = type }

\* C28: the events of a stream_chat call whose fallback stream, if any, did
\* not fail begin with the only start event and end with the only end
\* event, on the direct path, on the tool paths and on the error paths
C28_OneStartFirstOneEndLast ==
    (engRun.pc = "done" \/ engRun.error = "UnboundLocalError") =>
        /\ EventsOfType("start") = {1}
        /\ EventsOfType("end") = {Len(engRun.events)}

MigrationsInit == IdleEarly /\ IdleLateButMigrations /\ InitMigrations

\* run_migrations calls on a database at any recorded version
SpecMigrations == MigrationsInit /\ [][NextMigrations]_vars

(***************************************************************************)
(* Properties of run_migrations (SpecMigrations)                           *)
(***************************************************************************)
\* the versions from..to in ascending order
Ascending(from, to) ==
    [i \in 1..(IF to >= from THEN to - from + 1 ELSE 0) |-> from + i - 1]

\* C30: a run_migrations call that returned left exactly the row
\* SCHEMA_VERSION and ran the migrations current+1..SCHEMA_VERSION once
\* each in ascending order; the call after it runs no migration; a call
\* that raised left the recorded version as it was, and the table is not
\* written while migrations are running
C30_MigratesOnceToSchemaVersion ==
    /\ \A i \in 1..Len(migRun.calls) :
          LET c == migRun.calls[i]
          IN /\ c.outcome = "returned" =>
                  /\ c.after = {SCHEMA_VERSION}
                  /\ c.ran = Ascending(CurrentVersion(c.before) + 1,
                                       SCHEMA_VERSION)
                  /\ i < Len(migRun.calls) => migRun.calls[i + 1].ran = <<>>
                  /\ (i = Len(migRun.calls) /\ migRun.pc = "migrating")
                        => migRun.ran = <<>>
             /\ c.outcome = "raised" => c.after = c.before
    /\ migRun.pc = "migrating" => schema_version = migRun.before

\* a call from an older version that ran the pending migrations and
\* returned, then a second call that ran none
C30_MigratedThenNothingToRun ==
    /\ Len(migRun.calls) = 2
    /\ migRun.calls[1].outcome = "returned"
    /\ Len(migRun.calls[1].ran) >= 2
    /\ migRun.calls[2].outcome = "returned"
    /\ migRun.calls[2].ran = <<>>
    /\ schema_version = {SCHEMA_VERSION}

\* a call that raised in a migration, then a call from the same version
\* that ran the pending migrations and returned
MigratedAfterFailure ==
    /\ Len(migRun.calls) = 2
    /\ migRun.calls[1].outcome = "raised"
    /\ migRun.calls[1].ran # <<>>
    /\ migRun.calls[2].outcome = "returned"
    /\ Len(migRun.calls[2].ran) >= 2
    /\ schema_version = {SCHEMA_VERSION}

(***************************************************************************)
(* Properties of the caller's objects                                      *)
(***************************************************************************)
\* C23: no client operation changes the caller's messages, options or
\* schema: whatever operations have run, also interleaved on the same
\* objects, the objects equal their values before the calls
C23_CallerObjectsUnchanged == callerObjs = InitialObjects

\* two two-call procedures have both sent their answer call, with requests
\* that carry the added turns and the stop sequence
C23_TwoThinkingRunsDone ==
    \A r \in 1..MaxRuns :
        /\ IsThinkingOperation(opRuns[r].op)
        /\ opRuns[r].pc = "done"
        /\ Len(opRuns[r].requests) = 2
        /\ Len(opRuns[r].requests[1].messages) > Len(callerObjs.messages)
        /\ opRuns[r].requests[1].options.stop = <<ThinkClose>>

(***************************************************************************)
(* Properties of the two-call thinking procedures                          *)
(***************************************************************************)
\* C20: the answer call is sent only after the elicit call has returned and
\* never when it failed; the elicit call has no schema and stop =
\* ["</think>"]; the answer call has the schema and no stop sequence,
\* whatever the caller's options
C20_ElicitThenAnswer ==
    /\ Len(thRun.calls) <= 2
    /\ thRun.pc = "elicit" => Len(thRun.calls) = 1
    /\ Len(thRun.calls) >= 1 =>
          /\ thRun.calls[1].schemaShape = "none"
          /\ thRun.calls[1].options.stop = <<ThinkClose>>
    /\ Len(thRun.calls) = 2 =>
          /\ thRun.elicit.ok
          /\ thRun.calls[2].schemaShape # "none"
          /\ thRun.calls[2].options.stop = <<>>

(***************************************************************************)
(* Properties of the provider adapters                                     *)
(***************************************************************************)
LogEntries == {locLog[i] : i \in 1..Len(locLog)}

ChatEntries == {e \in LogEntries : e.op = "chat"}

LoadEntries == {e \in LogEntries : e.op \in {"load_model", "load_local_model"}}

\* the chat sent a request and the provider did not answer it with success
RequestFailed(e) == Len(e.result.calls) > 0 /\ ~AnswerOk(e.answer)

C22_SchemaSentAsOneMapping ==
    \A e \in ChatEntries :
        (e.ptype \in {"ollama", "openai"} /\ Len(e.result.calls) = 1) =>
            LET req == e.result.calls[1]
            IN IF ~e.arg.format THEN req.schemaShape = "none"
               ELSE IF e.ptype = "openai"
               THEN req.schemaField = "response_format"
                    /\ req.schemaShape = "object"
               ELSE req.schemaField = "format" /\ req.schemaShape = "object"

\* C15: a chat with no model loaded fails with the model-not-loaded error
\* and sends no request, a load_model that fails leaves current_model as it
\* was, a load_model of an available model succeeds, and a chat after a
\* successful load_model sends its request for that model
C15_LoadThenChat ==
    /\ \A e \in ChatEntries :
          IF e.before = ""
          THEN e.result.raised = "ValueError" /\ e.result.calls = <<>>
          ELSE /\ Len(e.result.calls) = 1
               /\ e.result.calls[1].model = e.before
    /\ \A i \in 1..Len(locLog) :
          locLog[i].op \in {"load_model", "load_local_model"} =>
              LET after == IF i < Len(locLog) THEN locLog[i + 1].before
                           ELSE locModel
              IN IF locLog[i].result.raised # ""
                 THEN after = locLog[i].before
                 ELSE after = locLog[i].arg
    /\ \A e \in LoadEntries : e.result.available => e.result.raised = ""

(***************************************************************************)
(* Properties of detect_behavior_from_raw_response (SpecDetect)            *)
(***************************************************************************)
Detected == detOut # NotDetected

\* the response has a first choice whose message is an object
HasMessage(body) ==
    /\ body.kind = "dict" /\ body.choices = "list"
    /\ body.first = "dict" /\ body.message = "dict"

NonEmptyString(v) == v.t = "str" /\ v.s # <<>>

\* a string with a character that is not whitespace
NonBlankString(v) ==
    v.t = "str" /\ \E i \in 1..Len(v.s) : v.s[i] \notin Whitespace

\* the first of reasoning_content, reasoning, thoughts whose value satisfies
\* Holds, "" when none does
FirstKeyHolding(fields, Holds(_)) ==
    IF Holds(fields.reasoning_content) THEN "reasoning_content"
    ELSE IF Holds(fields.reasoning) THEN "reasoning"
    ELSE IF Holds(fields.thoughts) THEN "thoughts"
    ELSE ""

\* C11 as stated: a message holding a non-empty string under
\* reasoning_content, reasoning or thoughts is classified field, with the
\* first such key as reasoning_field_name, whatever the content holds
C11_FieldWhenNonEmptyString ==
    (/\ Detected
     /\ HasMessage(detBody)
     /\ FirstKeyHolding(detBody.fields, NonEmptyString) # "")
    => /\ detOut.capability_type = "field"
       /\ detOut.reasoning_field_name
            = FirstKeyHolding(detBody.fields, NonEmptyString)

\* C11 amended: a message holding a string that is not blank under
\* reasoning_content, reasoning or thoughts is classified field, with the
\* first such key as reasoning_field_name, also when the content holds
\* think tags
C11_FieldWhenNonBlankString ==
    (/\ Detected
     /\ HasMessage(detBody)
     /\ FirstKeyHolding(detBody.fields, NonBlankString) # "")
    => /\ detOut.capability_type = "field"
       /\ detOut.reasoning_field_name
            = FirstKeyHolding(detBody.fields, NonBlankString)
       /\ detOut.tag_names = {}

\* a populated reasoning_content beside a content with a think span, and a
\* blank reasoning_content before a populated reasoning, both detected
C11_FieldBesideThinkTags ==
    /\ Detected
    /\ HasMessage(detBody)
    /\ detBody.fields.content = Str(TagSpan(<<"t", "h", "i", "n", "k">>, <<"x">>))
    /\ detBody.fields.reasoning_content = Str(<<"r">>)
    /\ detBody.fields.thoughts = Str(<<"r">>)
    /\ detOut = Behavior("field", "reasoning_content", {})

\* the names with an opening tag that a closing tag of the same name follows
PairedNames(s) ==
    { TagList[n].name : n \in
        { n \in 1..Len(TagList) :
            \E i \in 1..Len(s), j \in 1..Len(s) :
                /\ TagAt(s, i, TagList[n].chars, FALSE) # 0
                /\ j > TagAt(s, i, TagList[n].chars, FALSE)
                /\ TagAt(s, j, TagList[n].chars, TRUE) # 0 } }

\* the name of the first opening tag that has its closing tag
FirstPairedName(s) ==
    LET opens == { i \in 1..Len(s) :
                     \E n \in 1..Len(TagList), j \in 1..Len(s) :
                        /\ TagAt(s, i, TagList[n].chars, FALSE) # 0
                        /\ j > TagAt(s, i, TagList[n].chars, FALSE)
                        /\ TagAt(s, j, TagList[n].chars, TRUE) # 0 }
        first == CHOOSE i \in opens : \A k \in opens : i <= k
    IN TagList[CHOOSE n \in 1..Len(TagList) :
                  TagAt(s, first, TagList[n].chars, FALSE) # 0].name

NoFieldPopulated(body) ==
    HasMessage(body) => FirstKeyHolding(body.fields, NonBlankString) = ""

HasPairedTags(body) ==
    /\ HasMessage(body)
    /\ body.fields.content.t = "str"
    /\ PairedNames(body.fields.content.s) # {}

ProviderAnswered ==
    chatCount > 0 /\ chatArgs.ptype # "local" /\ chatArgs.reply.ok

\* C1: for every provider kind and every model output,
\* chat_with_structured_output returns a string whenever the provider call
\* succeeds; it raises only when the provider call fails
C1_ReturnsStringUnlessProviderFails ==
    chatCount > 0 =>
        (chatOut.raised # "" => ~chatArgs.reply.ok /\ chatArgs.ptype # "local")

\* C2: a syntactically valid JSON text returned as the message content is
\* returned exactly, unmodified
C2_ValidJsonRoundTrip ==
    (/\ ProviderAnswered
     /\ chatArgs.reply.content.t = "str"
     /\ Parses(chatArgs.reply.content.s))
    => chatOut = Returned(chatArgs.reply.content.s)

IsAssistantThinkTurn(m) ==
    /\ m.role = "assistant"
    /\ StartsWithAt(m.content, 1, <<"<", "t", "h", "i", "n", "k", ">">>)
    /\ StartsWithAt(m.content, Len(m.content) - 7, ThinkClose)

\* C3: for a model classified tags, one call issues exactly two provider
\* calls, the first with stop = ["</think>"], the second with an assistant
\* turn that starts with <think> and ends with </think>
C3_TagsModelIssuesTwoCalls ==
    (/\ ProviderAnswered
     /\ chatArgs.ptype = GetLlmClient(cfg)
     /\ chatArgs.behavior = "tags")
    => /\ Len(chatCalls) = 2
       /\ chatCalls[1].options.stop = <<ThinkClose>>
       /\ \E i \in 1..Len(chatCalls[2].messages) :
             IsAssistantThinkTurn(chatCalls[2].messages[i])

ReasoningOnly(c) ==
    c.choices /\ ChunkReasoning(c) # "" /\ c.content = "" /\ ~c.tool_calls

ContentOnly(c) ==
    c.choices /\ ChunkReasoning(c) = "" /\ c.content # "" /\ ~c.tool_calls

\* k >= 1 reasoning-only chunks followed by m >= 1 content-only chunks
ReasoningThenContent(cs) ==
    \E k \in 1..(Len(cs) - 1) :
        /\ \A i \in 1..k : ReasoningOnly(cs[i])
        /\ \A i \in (k + 1)..Len(cs) : ContentOnly(cs[i])

\* "<think>", r1, ..., rk, "</think>\n\n", c1, ..., cm
NormalizedContents(cs) ==
    LET k == Cardinality({i \in 1..Len(cs) : ReasoningOnly(cs[i])})
    IN [i \in 1..(Len(cs) + 2) |->
          IF i = 1 THEN ThinkOpenMarker
          ELSE IF i <= k + 1 THEN ChunkReasoning(cs[i - 1])
          ELSE IF i = k + 2 THEN ThinkCloseMarker
          ELSE cs[i - 2].content]

EventContents == [i \in 1..Len(stEvents) |-> stEvents[i].content]

\* C4: reasoning-only chunks followed by content-only chunks are emitted as
\* exactly "<think>", the reasoning texts, "</think>\n\n", the content
\* texts, with no other event in between
C4_ReasoningThenContentEvents ==
    (stDone /\ ReasoningThenContent(stChunks))
    => EventContents = NormalizedContents(stChunks)

\* the reasoning texts and the content texts of the vendor chunks
ReasoningTexts == {ChunkReasoning(c) : c \in ChunkKinds} \ {""}

ContentTexts == {c.content : c \in ChunkKinds} \ {""}

\* the events are read from left to right with the marker state open: the
\* markers alternate, a reasoning delta comes while open and a non-empty
\* content delta while not open
RECURSIVE WellDelimited(_, _)
WellDelimited(evs, open) ==
    IF evs = <<>> THEN TRUE
    ELSE LET text == Head(evs).content
         IN IF text = ThinkOpenMarker
            THEN ~open /\ WellDelimited(Tail(evs), TRUE)
            ELSE IF text = ThinkCloseMarker
            THEN open /\ WellDelimited(Tail(evs), FALSE)
            ELSE IF text \in ReasoningTexts
            THEN open /\ WellDelimited(Tail(evs), open)
            ELSE IF text \in ContentTexts
            THEN ~open /\ WellDelimited(Tail(evs), open)
            ELSE WellDelimited(Tail(evs), open)

\* the marker state after the events
RECURSIVE OpenAfter(_, _)
OpenAfter(evs, open) ==
    IF evs = <<>> THEN open
    ELSE IF Head(evs).content = ThinkOpenMarker
    THEN OpenAfter(Tail(evs), TRUE)
    ELSE IF Head(evs).content = ThinkCloseMarker
    THEN OpenAfter(Tail(evs), FALSE)
    ELSE OpenAfter(Tail(evs), open)

\* C16: in every prefix of the normalized stream the <think> and
\* </think>\n\n markers alternate starting with <think>, every reasoning
\* delta lies between an open marker and its close marker, and every
\* non-empty content delta lies outside
C16_MarkersDelimitReasoning ==
    \A n \in 0..Len(stEvents) : WellDelimited(SubSeq(stEvents, 1, n), FALSE)

\* C17: when the vendor stream has ended, every <think> marker emitted has
\* been followed by a </think>\n\n marker
C17_MarkersBalancedAtEnd ==
    stDone => ~OpenAfter(stEvents, FALSE)

(***************************************************************************)
(* Properties of probe_and_store_model_behavior (Spec)                     *)
(***************************************************************************)
\* the request failed, was refused, or was answered with a body that is not
\* the documented one
ProbeFailed(o) ==
    \/ o.net \in {"connect_error", "timeout"}
    \/ o.net = "response" /\ o.status # 200
    \/ o.net = "response" /\ o.status = 200 /\ o.body \in BadBodies

LastProbeKey == <<lastProbe.provider, lastProbe.model>>

CompleteRows ==
    {ProbeWithoutRequest.row} \cup {ProbeAfterRequest(o).row : o \in ProbeOutcomes}

TaskKey(task) == <<LowerName(task.provider), task.model>>

\* C14: whatever the interleaving of probes, also of two probes for the same
\* (provider, model), the row of the key last written equals the complete
\* result of the last probe that wrote it, every row is the complete result
\* of one probe, and a row once present is never removed
C14_RowIsLastWrite ==
    /\ [](/\ lastProbe # NoProbe =>
                capRows[LastProbeKey] = lastProbe.result.row
          /\ \A k \in Keys : capRows[k] = NoRow \/ capRows[k] \in CompleteRows)
    /\ [][\A k \in Keys : capRows[k] # NoRow => capRows'[k] # NoRow]_vars

\* one probe has stored a detected behaviour while a second probe for the
\* same key, scheduled by the same update, is still waiting for its response
C14_SameKeyProbeInFlight ==
    /\ lastProbe # NoProbe
    /\ lastProbe.requests > 0
    /\ capRows[LastProbeKey].capability_type = "field"
    /\ \E i \in 1..Len(tasks) :
          tasks[i].pc = "awaiting" /\ TaskKey(tasks[i]) = LastProbeKey

\* C19: one probe invocation sends at most one request; for a provider other
\* than openai, or without a base URL, it sends none, stores capability_type
\* none for its key and reports probed = false
C19_AtMostOneRequest ==
    lastProbe # NoProbe =>
        /\ lastProbe.requests <= 1
        /\ (lastProbe.provider # "openai" \/ lastProbe.base_url = "") =>
              /\ lastProbe.requests = 0
              /\ capRows[LastProbeKey].capability_type = "none"
              /\ ~lastProbe.result.probed

\* a probe for the openai provider with no base URL has returned without a
\* request and has stored none
C19_NoBaseUrlNoRequest ==
    /\ lastProbe # NoProbe
    /\ lastProbe.provider = "openai"
    /\ lastProbe.base_url = ""
    /\ lastProbe.requests = 0
    /\ capRows[LastProbeKey] = ProbeWithoutRequest.row

(***************************************************************************)
(* Properties of repair_json and its passes (SpecRepair)                   *)
(***************************************************************************)
RepairDone == rjPc = "done" /\ rjPass = ""

\* the operation applied in this behaviour, applied to a text
Applied(s) == IF rjPass = "" THEN RepairJson(s) ELSE ApplyPass(rjPass, s)

C7_PassesIdempotent ==
    (rjPc = "done" /\ rjOut.raised = "") => Applied(rjOut.out) = rjOut

\* C8: a think, thinking or reasoning span (any case, body possibly with
\* line breaks) before a valid JSON value repairs to text that parses to
\* that value
C8_TagSpanBeforeJson ==
    (/\ RepairDone
     /\ rjParts.pre \in TagSpans
     /\ rjParts.post = <<>>
     /\ Parses(rjParts.core))
    => /\ rjOut.raised = ""
       /\ JsonLoads(rjOut.out) = JsonLoads(rjParts.core)

\* the text with each raw newline, carriage return and tab escaped
ControlsEscaped(s) ==
    ReplaceChar(ReplaceChar(ReplaceChar(s, NL, <<Backslash, "n">>),
                            CR, <<Backslash, "r">>),
                TAB, <<Backslash, "t">>)

HasRawControl(s) == \E i \in 1..Len(s) : s[i] \in {NL, CR, TAB}

EndsWith(s, p) == StartsWithAt(s, Len(s) - Len(p) + 1, p)

\* C9: JSON that is valid but for raw newlines, carriage returns and tabs
\* in its string literals repairs to text that parses, with those
\* characters escaped and every other character of the value preserved;
\* the escaping pass changes nothing outside string literals
C9_ControlCharactersEscaped ==
    /\ (/\ RepairDone
        /\ rjParts.pre = <<>> /\ rjParts.post = <<>>
        /\ rjParts.core \in StringObjects
        /\ HasRawControl(rjParts.core))
       => /\ rjOut.raised = ""
          /\ JsonLoads(rjOut.out) = JsonLoads(ControlsEscaped(rjParts.core))
    /\ (/\ rjPc = "done" /\ rjPass = "escape"
        /\ rjParts.pre \in Pads /\ rjParts.post \in Pads)
       => /\ StartsWithAt(rjOut.out, 1, rjParts.pre)
          /\ EndsWith(rjOut.out, rjParts.post)

IsJsonObject(s) == Parses(s) /\ Head(s) = "{"

\* one extra brace layer: symmetric, open only, close only
ExtraBraceLayer(parts) ==
    \/ parts.pre \in Opens /\ parts.post \in Closes
    \/ parts.pre \in Opens /\ parts.post = <<>>
    \/ parts.pre = <<>> /\ parts.post \in Closes

\* C10: a valid JSON object wrapped in one extra brace layer, symmetric,
\* open only or close only, repairs to the object's text exactly
C10_ExtraBraceLayerRemoved ==
    (RepairDone /\ IsJsonObject(rjParts.core) /\ ExtraBraceLayer(rjParts))
    => rjOut = Returned(rjParts.core)

====
